---- MODULE Spec2Model ----
(***************************************************************************)
(* Snowflake policy impact simulator.                                      *)
(*                                                                         *)
(* The browser client (frontend/js: simulator.js, charts.js, api.js) is    *)
(* modelled from its source.  The simulation pipeline behind /api          *)
(* (risk index, sector propagation, sentiment aggregation, comparison      *)
(* ranking) is not among the source files; it is modelled from the         *)
(* written specification and from README.md, and every such definition     *)
(* says so.                                                                *)
(*                                                                         *)
(* Numbers are fixed point integers; each section names its unit.          *)
(***************************************************************************)
EXTENDS Integers, Sequences, FiniteSets, TLC

VARIABLES
    components,     \* risk calculator: the four component risks of the current input
    risk,           \* risk calculator: the risk_assessment produced, or NoRisk
    cmpInput,       \* comparison engine: the list of named policy inputs
    cmpStatus,      \* comparison engine: "idle", "done" or "InvalidInputError"
    cmpTable,       \* comparison engine: the comparison_table produced
    sectorInput,    \* sector propagator: policy input and interdependency data
    sectorImpacts,  \* sector propagator: the sector_impacts produced, or NoImpacts
    affectedSectorsValue, \* dashboard: the "most affected sectors" summary card
    reactions,      \* sentiment synthesizer: the polarity of each synthetic reaction
    sentiment,      \* sentiment synthesizer: the sentiment_analysis produced, or NoSentiment
    recInput,       \* recommender: the risk level, sentiment category and most affected sector
    recommendations, \* recommender: the ordered recommendations, or NoRecommendations
    now,            \* browser: the last value Date.now() returned
    scenarios,      \* PolicySimulator: this.scenarios, the list of scenario ids
    scenarioItems,  \* page: the .scenario-item elements of #scenarios-list, in page order
    compareDisabled,    \* page: #compare-btn.disabled
    policyForm,     \* page: the field values of #policy-form
    calls,          \* the handleSimulation / handleComparison invocations awaiting their response
    overlayHidden,  \* page: #loading-overlay carries the class hidden
    dashboard,      \* page: #results-dashboard and the result it renders
    comparisonResults,  \* page: #comparison-results and the table it renders
    alertBox,        \* browser: the alert dialog, open (with its message) or closed
    arrivals,       \* history: which responses have arrived ahead of earlier submissions
    apiCall, \* APIClient: the method invoked and what fetch comes back with
    apiResult, \* APIClient: how the promise of get / post settled, or NotSettled
    canvasCharts, \* page: per canvas, ctx.chart and the charts constructed on it
    detailsPanels, \* page: per details panel, the result whose figures it shows
    recommendationsDiv, \* page: the result whose recommendations are listed
    shown, \* history: how many results and comparisons have been displayed
    uncaught, \* an exception left displayResults or displayComparisonResults
    activeButtons, \* page: the .tab-button elements carrying the class active
    activeContents, \* page: the .tab-content elements carrying the class active
    currentTab, \* SnowflakeApp: this.currentTab
    lastClicked, \* history: the tab button clicked last, or NoClick
    appInput, \* SnowflakeApp: what the health check and the indicators request come back with, and a notification to show
    appPhase, \* SnowflakeApp: how far initialize, checkAPIHealth and loadInitialData have come
    appAlerts, \* browser: the alerts showNotification has raised, with the caller of each
    tableReceived, \* page: the comparison_table handed to displayComparisonResults
    tableContainer, \* page: the rows of #comparison-table-container, or NoTable
    chartLabels \* page: the labels of the comparison chart, or NoLabels

riskVars == <<components, risk>>

rankVars == <<cmpInput, cmpStatus, cmpTable>>

sectorVars == <<sectorInput, sectorImpacts, affectedSectorsValue>>

sentimentVars == <<reactions, sentiment>>

recVars == <<recInput, recommendations>>

uiVars == <<now, scenarios, scenarioItems, compareDisabled, policyForm, calls,
            overlayHidden, dashboard, comparisonResults, alertBox, arrivals>>

apiVars == <<apiCall, apiResult>>

chartVars == <<canvasCharts, detailsPanels, recommendationsDiv, shown, uncaught>>

tabVars == <<activeButtons, activeContents, currentTab, lastClicked>>

appVars == <<appInput, appPhase, appAlerts>>

tableVars == <<tableReceived, tableContainer, chartLabels>>

vars == <<riskVars, rankVars, sectorVars, sentimentVars, recVars, uiVars, apiVars, chartVars, tabVars, appVars, tableVars>>

\* Each component leaves the state of the others alone.
OnlyRisk == UNCHANGED <<rankVars, sectorVars, sentimentVars, recVars, uiVars, apiVars, chartVars, tabVars, appVars, tableVars>>

OnlyRank == UNCHANGED <<riskVars, sectorVars, sentimentVars, recVars, uiVars, apiVars, chartVars, tabVars, appVars, tableVars>>

OnlySector == UNCHANGED <<riskVars, rankVars, sentimentVars, recVars, uiVars, apiVars, chartVars, tabVars, appVars, tableVars>>

OnlySentiment == UNCHANGED <<riskVars, rankVars, sectorVars, recVars, uiVars, apiVars, chartVars, tabVars, appVars, tableVars>>

OnlyRec == UNCHANGED <<riskVars, rankVars, sectorVars, sentimentVars, uiVars, apiVars, chartVars, tabVars, appVars, tableVars>>

OnlyApi == UNCHANGED <<riskVars, rankVars, sectorVars, sentimentVars, recVars, uiVars, chartVars, tabVars, appVars, tableVars>>

OnlyCharts == UNCHANGED <<riskVars, rankVars, sectorVars, sentimentVars, recVars, uiVars, apiVars, tabVars, appVars, tableVars>>

OnlyTabs == UNCHANGED <<riskVars, rankVars, sectorVars, sentimentVars, recVars, uiVars, apiVars, chartVars, appVars, tableVars>>

OnlyApp == UNCHANGED <<riskVars, rankVars, sectorVars, sentimentVars, recVars, uiVars, apiVars, chartVars, tabVars, tableVars>>

OnlyTable == UNCHANGED <<riskVars, rankVars, sectorVars, sentimentVars, recVars, uiVars, apiVars, chartVars, tabVars, appVars>>

OnlyUI == UNCHANGED <<riskVars, rankVars, sectorVars, sentimentVars, recVars, apiVars, chartVars, tabVars, appVars, tableVars>>

Max(a, b) == IF a >= b THEN a ELSE b

Min(a, b) == IF a <= b THEN a ELSE b

Abs(a) == IF a < 0 THEN -a ELSE a

Clip(x, lo, hi) == Max(lo, Min(hi, x))

(***************************************************************************)
(* Risk Index Calculator and the risk colours of charts.js.                *)
(* Component risks are in hundredths of a point (2500 is 25.00); a         *)
(* composite score is in ScoreUnit-ths of a point, so that the percent     *)
(* weights keep it an integer (250000 is 25.00).                           *)
(***************************************************************************)
ScoreUnit == 100 * 100

W_ECONOMIC == 35

W_SECTOR == 25

W_UNREST == 25

W_INEQUALITY == 15

\* Component risks tried: the ends of the scale, the bucket boundaries, and
\* values that put a composite just above a boundary (25.04 * 0.25 = +0.01).
ComponentValues == {0, 2500, 2504, 5000, 7500, 7504, 10000}

Components == [economic_risk : ComponentValues, sector_disruption_risk : ComponentValues,
               social_unrest_risk : ComponentValues, income_inequality_risk : ComponentValues]

NoRisk == [computed |-> FALSE]

COLORS == [low |-> "#00c851", moderate |-> "#f39c12", high |-> "#e67e22",
           critical |-> "#e74c3c", positive |-> "#0095da", negative |-> "#e74c3c",
           neutral |-> "#7f8c8d"]

\* String.prototype.toLowerCase on the four risk levels the backend emits.
toLowerCase(level) ==
    CASE level = "Low" -> "low"
      [] level = "Moderate" -> "moderate"
      [] level = "High" -> "high"
      [] level = "Critical" -> "critical"
      [] OTHER -> level

getRiskColor(level) ==
    LET levelLower == toLowerCase(level)
    IN  IF levelLower \in DOMAIN COLORS THEN COLORS[levelLower] ELSE COLORS.neutral

getRiskColorByScore(score) ==
    IF score < 25 * ScoreUnit THEN COLORS.low
    ELSE IF score < 50 * ScoreUnit THEN COLORS.moderate
    ELSE IF score < 75 * ScoreUnit THEN COLORS.high
    ELSE COLORS.critical

\* A plausible slip in the weights (0.25 for inequality, no clip).
CompositeScoreMisweighted(c) ==
    W_ECONOMIC * c.economic_risk + W_SECTOR * c.sector_disruption_risk
        + W_UNREST * c.social_unrest_risk + W_UNREST * c.income_inequality_risk

CompositeScore(c) ==
    Clip(W_ECONOMIC * c.economic_risk + W_SECTOR * c.sector_disruption_risk
             + W_UNREST * c.social_unrest_risk + W_INEQUALITY * c.income_inequality_risk,
         0, 100 * ScoreUnit)

RiskLevel(score) ==
    IF score <= 25 * ScoreUnit THEN "Low"
    ELSE IF score <= 50 * ScoreUnit THEN "Moderate"
    ELSE IF score <= 75 * ScoreUnit THEN "High"
    ELSE "Critical"

\* The doughnut of createRiskChart: [riskScore, Math.max(0, 100 - riskScore)].
RiskChartData(riskData) ==
    <<riskData.composite_risk_score,
      Max(0, 100 * ScoreUnit - riskData.composite_risk_score)>>

RiskChartColor(riskData) == getRiskColor(riskData.risk_level)

InitRisk ==
    /\ components = [economic_risk |-> 0, sector_disruption_risk |-> 0,
                     social_unrest_risk |-> 0, income_inequality_risk |-> 0]
    /\ risk = NoRisk

\* Any input may reach the calculator: four component risks, each in [0,100].
InitRiskInputs ==
    /\ components \in Components
    /\ risk = NoRisk

calculate_risk ==
    /\ risk = NoRisk
    /\ LET score == CompositeScore(components)
       IN  risk' = [computed |-> TRUE, composite_risk_score |-> score,
                    risk_level |-> RiskLevel(score), components |-> components]
    /\ UNCHANGED components
    /\ OnlyRisk

NextRisk == calculate_risk

(***************************************************************************)
(* Scenario Orchestrator and Comparison Engine (written specification 4.5,  *)
(* 4.6).  Magnitudes are in tenths of a percent, inflation rates in tenths *)
(* of a percent, risk scores in ScoreUnit-ths of a point.  A scenario name *)
(* is the sequence of its character codes.                                 *)
(***************************************************************************)
MaxCompare == 3

ScenarioNames == {<<65>>, <<65, 66>>, <<66>>}      \* "A", "AB", "B"

RankPolicyTypes == {"Tax Reform", "Fuel Price Change"}

RankMagnitudes == {-100, 100, 200}

PolicyInputs ==
    {p \in [policy_type : RankPolicyTypes, magnitude : RankMagnitudes, duration_months : {12}] :
        p.policy_type = "Tax Reform" \/ p.magnitude = 100}

NamedPolicyInputs == [name : ScenarioNames, policy : PolicyInputs]

\* The orchestrator with its injected capabilities (trained inflation model,
\* polarity scorer) replaced by a deterministic stub: a pure function of the
\* policy input.  The stub is chosen so that different inputs tie on the
\* risk score alone, and on risk score and inflation rate together.
Orchestrate(p) ==
    LET score == 2 * (Abs(p.magnitude) \div 10) * ScoreUnit
    IN  [risk_score |-> score,
         inflation_rate |-> 55 + (Abs(p.magnitude) \div 100)
                                   * (IF p.policy_type = "Fuel Price Change" THEN 2 ELSE 1),
         risk_level |-> RiskLevel(score),
         sentiment |-> IF p.magnitude > 0 THEN "Negative"
                       ELSE IF p.magnitude < 0 THEN "Positive" ELSE "Neutral"]

\* Lexicographic order on names (strict).
RECURSIVE LexLess(_, _)
LexLess(a, b) ==
    IF b = <<>> THEN FALSE
    ELSE IF a = <<>> THEN TRUE
    ELSE IF Head(a) # Head(b) THEN Head(a) < Head(b)
    ELSE LexLess(Tail(a), Tail(b))

\* A ranking without the tie-break on the name.
RankBeforeNoName(a, b) ==
    \/ a.risk_score < b.risk_score
    \/ /\ a.risk_score = b.risk_score
       /\ a.inflation_rate < b.inflation_rate

\* A ranking that looks at the risk score only.
RankBeforeScoreOnly(a, b) == a.risk_score < b.risk_score

\* composite_score ascending, then predicted_rate, then name.
RankBefore(a, b) ==
    \/ a.risk_score < b.risk_score
    \/ /\ a.risk_score = b.risk_score
       /\ \/ a.inflation_rate < b.inflation_rate
          \/ /\ a.inflation_rate = b.inflation_rate
             /\ LexLess(a.name, b.name)

\* x inserted behind every row that is not ranked after it: a stable sort.
RECURSIVE InsertRanked(_, _)
InsertRanked(x, sorted) ==
    IF sorted = <<>> THEN <<x>>
    ELSE IF RankBefore(x, Head(sorted)) THEN <<x>> \o sorted
    ELSE <<Head(sorted)>> \o InsertRanked(x, Tail(sorted))

RECURSIVE SortRanked(_)
SortRanked(rows) ==
    IF rows = <<>> THEN <<>>
    ELSE InsertRanked(rows[Len(rows)], SortRanked(SubSeq(rows, 1, Len(rows) - 1)))

ScenarioRow(s) ==
    LET r == Orchestrate(s.policy)
    IN  [name |-> s.name, inflation_rate |-> r.inflation_rate,
         risk_score |-> r.risk_score, risk_level |-> r.risk_level,
         sentiment |-> r.sentiment]

\* The rows ranked: sorted, and numbered from 1.
RankRows(rows) ==
    LET sorted == SortRanked(rows)
    IN  [i \in 1..Len(sorted) |->
            [rank |-> i, name |-> sorted[i].name,
             inflation_rate |-> sorted[i].inflation_rate,
             risk_score |-> sorted[i].risk_score,
             risk_level |-> sorted[i].risk_level,
             sentiment |-> sorted[i].sentiment]]

CompareTable(namedInputs) ==
    RankRows([i \in 1..Len(namedInputs) |-> ScenarioRow(namedInputs[i])])

InitRank ==
    /\ cmpInput = <<>>
    /\ cmpStatus = "idle"
    /\ cmpTable = <<>>

\* The caller assembles the list handed to compare().
AddNamedScenario ==
    /\ cmpStatus = "idle"
    /\ Len(cmpInput) < MaxCompare
    /\ \E s \in NamedPolicyInputs : cmpInput' = Append(cmpInput, s)
    /\ UNCHANGED <<cmpStatus, cmpTable>>
    /\ OnlyRank

compare ==
    /\ cmpStatus = "idle"
    /\ IF Len(cmpInput) < 2
       THEN cmpStatus' = "InvalidInputError" /\ cmpTable' = <<>>
       ELSE cmpStatus' = "done" /\ cmpTable' = CompareTable(cmpInput)
    /\ UNCHANGED cmpInput
    /\ OnlyRank

NextRank == AddNamedScenario \/ compare

(***************************************************************************)
(* Sector Impact Propagator (written specification 4.1, 4.2) and the axis  *)
(* of the sector chart.  Magnitudes are in tenths of a percent, weights    *)
(* and matrix coefficients in tenths, impact scores in ImpactUnit-ths      *)
(* (1000000 is 1.0).                                                       *)
(***************************************************************************)
ImpactUnit == 1000 * 1000

SECTORS == <<"Agriculture", "Manufacturing", "Services", "Transport",
             "Energy", "Healthcare", "Education", "IT">>

SectorSet == {SECTORS[i] : i \in 1..Len(SECTORS)}

POLICY_TYPES == {"Fuel Price Change", "Tax Reform", "Subsidy Change",
                 "Minimum Wage Change", "Environmental Regulation",
                 "Import/Export Tariff"}

DAMPING == 5

\* Sensitivity profiles: per policy type the signed direct-impact weight of
\* each sector, in SECTORS order.  The backend's table is not among the
\* source files; these weights stand for it (the fuel row follows the
\* README sample: transport, energy, manufacturing hit hardest).
SensitivityWeights ==
    [p \in POLICY_TYPES |->
        CASE p = "Fuel Price Change"        -> <<-15, -20, -5, -30, -25, -5, -2, -2>>
          [] p = "Tax Reform"               -> <<-5, -10, -10, -5, -5, -2, -2, -10>>
          [] p = "Subsidy Change"           -> <<25, 10, 2, 5, 15, 10, 10, 0>>
          [] p = "Minimum Wage Change"      -> <<-10, -15, -20, -5, 0, -5, -5, -2>>
          [] p = "Environmental Regulation" -> <<-5, -20, 0, -15, -30, 5, 0, 5>>
          [] p = "Import/Export Tariff"     -> <<10, -25, -2, -10, -5, -2, 0, -15>>]

\* Interdependency matrices tried: every sector influences every other with
\* the same coefficient (tenths); 0 is no ripple, 10 a matrix that amplifies.
MatrixCoefficients == {0, 2, 10}

InterdependencyMatrix(coef) ==
    [r \in 1..Len(SECTORS) |-> [c \in 1..Len(SECTORS) |-> IF r = c THEN 0 ELSE coef]]

SectorMagnitudes == {-500, -200, 0, 200, 500}

SectorDurations == {1, 12, 24, 60}

AllSectors == "all"

AffectedSectorChoices == {{AllSectors}, {"Transport"}, {"Transport", "Energy"}, {"IT"}}

SectorInputs == [policy_type : POLICY_TYPES, magnitude : SectorMagnitudes,
                 duration_months : SectorDurations,
                 affected_sectors : AffectedSectorChoices,
                 coefficient : MatrixCoefficients]

NoImpacts == [computed |-> FALSE]

\* Integer division rounding toward zero.
DivTrunc(a, b) == IF a >= 0 THEN a \div b ELSE -((-a) \div b)

\* effective_magnitude = magnitude * min(1, 12 / duration_months), in
\* thousandths of a percent.
EffectiveMagnitude(magnitude, duration_months) ==
    IF duration_months <= 12 THEN magnitude * 100
    ELSE DivTrunc(magnitude * 100 * 12, duration_months)

InScope(input, sector) ==
    input.affected_sectors = {AllSectors} \/ sector \in input.affected_sectors

\* direct[s] = profile.weight[s] * (effective_magnitude / 100) for sectors
\* in scope, 0 for the others.
DirectImpact(input) ==
    [i \in 1..Len(SECTORS) |->
        IF InScope(input, SECTORS[i])
        THEN SensitivityWeights[input.policy_type][i]
                 * EffectiveMagnitude(input.magnitude, input.duration_months)
        ELSE 0]

RECURSIVE SumOver(_, _)
SumOver(f, n) == IF n = 0 THEN 0 ELSE f[n] + SumOver(f, n - 1)

\* One propagation round: damping * (M x v); row r influences column c.
Propagate(matrix, v) ==
    [c \in 1..Len(SECTORS) |->
        DivTrunc(DAMPING * SumOver([r \in 1..Len(SECTORS) |-> matrix[r][c] * v[r]],
                                   Len(SECTORS)),
                 100)]

\* direct + indirect + indirect2, before clipping.
RawImpact(input) ==
    LET direct == DirectImpact(input)
        matrix == InterdependencyMatrix(input.coefficient)
        indirect == Propagate(matrix, direct)
        indirect2 == Propagate(matrix, indirect)
    IN  [i \in 1..Len(SECTORS) |-> direct[i] + indirect[i] + indirect2[i]]

\* The total left as it is.
ClipImpactMissing(x) == x

ClipImpact(x) == Clip(x, -ImpactUnit, ImpactUnit)

calculate_sector_impacts(input) ==
    LET raw == RawImpact(input)
    IN  [s \in SectorSet |->
            ClipImpact(raw[CHOOSE i \in 1..Len(SECTORS) : SECTORS[i] = s])]

\* The sector names in ascending alphabetical order.
SectorNamesAscending == <<"Agriculture", "Education", "Energy", "Healthcare",
                          "IT", "Manufacturing", "Services", "Transport">>

NameRank(sector) ==
    CHOOSE i \in 1..Len(SectorNamesAscending) : SectorNamesAscending[i] = sector

\* a is ranked before b: larger |score| first, ties by sector name ascending.
MoreAffected(a, b) ==
    \/ Abs(a.score) > Abs(b.score)
    \/ /\ Abs(a.score) = Abs(b.score)
       /\ NameRank(a.sector) < NameRank(b.sector)

RECURSIVE InsertAffected(_, _)
InsertAffected(entry, ranked) ==
    IF ranked = <<>> THEN <<entry>>
    ELSE IF MoreAffected(entry, Head(ranked)) THEN <<entry>> \o ranked
    ELSE <<Head(ranked)>> \o InsertAffected(entry, Tail(ranked))

RECURSIVE RankAffected(_, _)
RankAffected(impacts, n) ==
    IF n = 0 THEN <<>>
    ELSE InsertAffected([sector |-> SECTORS[n], score |-> impacts[SECTORS[n]]],
                        RankAffected(impacts, n - 1))

\* All sectors, most affected first.
SectorRanking(impacts) == RankAffected(impacts, Len(SECTORS))

\* most_affected: the top 3 of the ranking.
MostAffected(impacts) == SubSeq(SectorRanking(impacts), 1, 3)

\* The card before any result is shown.
NoCard == [set |-> FALSE]

\* The names without the slice.
MostAffectedNamesUnsliced(most_affected) ==
    [i \in 1..Len(most_affected) |-> most_affected[i].sector]

\* most_affected.slice(0, 3).map(s => s.sector); join(', ') keeps the order.
MostAffectedNames(most_affected) ==
    [i \in 1..Min(3, Len(most_affected)) |-> most_affected[i].sector]

\* The y axis of createSectorChart: min -1, max 1.
SectorChartAxis == [min |-> -ImpactUnit, max |-> ImpactUnit]

InitSector ==
    /\ sectorInput = [policy_type |-> "Fuel Price Change", magnitude |-> 0,
                      duration_months |-> 12, affected_sectors |-> {AllSectors},
                      coefficient |-> 0]
    /\ sectorImpacts = NoImpacts
    /\ affectedSectorsValue = NoCard

\* Any valid policy input may reach the propagator.
InitSectorInputs ==
    /\ sectorInput \in SectorInputs
    /\ sectorImpacts = NoImpacts
    /\ affectedSectorsValue = NoCard

PropagateSectorImpacts ==
    /\ sectorImpacts = NoImpacts
    /\ sectorImpacts' = [computed |-> TRUE,
                         sector_impacts |-> calculate_sector_impacts(sectorInput),
                         most_affected |->
                             MostAffected(calculate_sector_impacts(sectorInput))]
    /\ UNCHANGED <<sectorInput, affectedSectorsValue>>
    /\ OnlySector

\* updateSummaryCards on a result whose most_affected list has n entries, n
\* being whatever the service sent.
updateSummaryCards(n) ==
    /\ sectorImpacts.computed
    /\ ~affectedSectorsValue.set
    /\ LET received == SubSeq(SectorRanking(sectorImpacts.sector_impacts), 1, n)
       IN  affectedSectorsValue' = [set |-> TRUE, received |-> received,
                                    textContent |-> MostAffectedNames(received)]
    /\ UNCHANGED <<sectorInput, sectorImpacts>>
    /\ OnlySector

NextSector ==
    \/ PropagateSectorImpacts
    \/ \E n \in 0..Len(SECTORS) : updateSummaryCards(n)

(***************************************************************************)
(* Sentiment Synthesizer: aggregation (written specification 4.3).         *)
(* Polarities are in hundredths (10 is 0.1); ratios are percentages        *)
(* rounded to one decimal place, the coarsest rounding the stated          *)
(* tolerance of 0.1 allows, held in tenths of a percent (1000 is 100.0).   *)
(***************************************************************************)
MaxPopulation == 6

\* Polarities on and next to the two thresholds.
PolarityValues == {-11, -10, 10, 11}

Populations == UNION {[1..n -> PolarityValues] : n \in 1..MaxPopulation}

NoSentiment == [computed |-> FALSE]

\* if polarity > 0.1: positive; elif polarity < -0.1: negative; else neutral.
ClassifyReaction(polarity) ==
    IF polarity > 10 THEN "positive"
    ELSE IF polarity < -10 THEN "negative"
    ELSE "neutral"

CountClass(classes, class) == Cardinality({i \in DOMAIN classes : classes[i] = class})

\* The percentage cut off after one decimal place instead of rounded.
SentimentRatioTruncated(count, total) == (count * 1000) \div total

\* count / total * 100, rounded to one decimal place.
SentimentRatio(count, total) == (2 * count * 1000 + total) \div (2 * total)

analyze_sentiment(population) ==
    LET classes == [i \in DOMAIN population |-> ClassifyReaction(population[i])]
        total == Len(population)
    IN  [computed |-> TRUE,
         classes |-> classes,
         positive_ratio |-> SentimentRatio(CountClass(classes, "positive"), total),
         negative_ratio |-> SentimentRatio(CountClass(classes, "negative"), total),
         neutral_ratio |-> SentimentRatio(CountClass(classes, "neutral"), total)]

\* The pie of createSentimentChart: positive, negative, neutral.
SentimentChartData(sentimentData) ==
    <<sentimentData.positive_ratio, sentimentData.negative_ratio,
      sentimentData.neutral_ratio>>

InitSentiment ==
    /\ reactions = <<0>>
    /\ sentiment = NoSentiment

\* Any scored population of at least one reaction may reach the aggregation.
InitSentimentInputs ==
    /\ reactions \in Populations
    /\ sentiment = NoSentiment

AggregateSentiment ==
    /\ sentiment = NoSentiment
    /\ sentiment' = analyze_sentiment(reactions)
    /\ UNCHANGED reactions
    /\ OnlySentiment

NextSentiment == AggregateSentiment

(***************************************************************************)
(* Recommendations: a rule table keyed on the risk level, the sentiment    *)
(* category and the most affected sectors.  Every rule that fires adds its *)
(* recommendation; the rules are taken in a fixed priority order.          *)
(***************************************************************************)

RISK_LEVELS == <<"Low", "Medium", "High", "Critical">>

SENTIMENT_CATEGORIES == {"Positive", "Neutral", "Negative"}

\* The scores a most affected sector is given here: none, a loss, a gain.
TopScores == {0, -650000, 650000}

RecInputs ==
    [risk_level : {RISK_LEVELS[i] : i \in 1..Len(RISK_LEVELS)},
     sentiment_category : SENTIMENT_CATEGORIES,
     most_affected : {<<[sector |-> sec, score |-> sc]>> :
                          sec \in SectorSet, sc \in TopScores}]

NoRecommendations == [computed |-> FALSE]

LevelIndex(level) == CHOOSE i \in 1..Len(RISK_LEVELS) : RISK_LEVELS[i] = level

\* risk_level >= High
AtLeastHigh(level) == LevelIndex(level) >= LevelIndex("High")

\* The rules, highest priority first.
RULES == <<"strong mitigation", "sector support", "stakeholder engagement">>

RuleFires(rule, input) ==
    CASE rule = "strong mitigation" -> AtLeastHigh(input.risk_level)
      [] rule = "sector support" ->
             /\ input.most_affected # <<>>
             /\ input.most_affected[1].score # 0
      [] rule = "stakeholder engagement" -> input.sentiment_category = "Negative"

\* Only the first rule that fires.
generate_recommendationsFirstOnly(input) ==
    LET Fires(rule) == RuleFires(rule, input)
        fired == SelectSeq(RULES, Fires)
    IN  IF fired = <<>> THEN <<>> ELSE <<Head(fired)>>

\* Every rule that fires, in priority order.
generate_recommendations(input) ==
    LET Fires(rule) == RuleFires(rule, input)
    IN  SelectSeq(RULES, Fires)

InitRec ==
    /\ recInput = [risk_level |-> "Low", sentiment_category |-> "Neutral",
                   most_affected |-> <<[sector |-> "Transport", score |-> 0]>>]
    /\ recommendations = NoRecommendations

\* Any risk level, sentiment category and top sector may reach the rule table.
InitRecInputs ==
    /\ recInput \in RecInputs
    /\ recommendations = NoRecommendations

Recommend ==
    /\ recommendations = NoRecommendations
    /\ recommendations' = [computed |-> TRUE,
                           list |-> generate_recommendations(recInput)]
    /\ UNCHANGED recInput
    /\ OnlyRec

NextRecommend == Recommend

(***************************************************************************)
(* The browser client: PolicySimulator (simulator.js) and APIClient        *)
(* (api.js).  A text field holds the sequence of its character codes, a    *)
(* number input either nothing or a decimal in tenths (105 is "10.5"), a   *)
(* JavaScript number is NaN or a value in tenths.  The page markup         *)
(* (index.html) is not among the source files: whether #compare-btn starts *)
(* disabled is left open, the other elements start hidden and empty.       *)
(***************************************************************************)
MaxScenarios == 2

MaxTime == 1

MaxInFlight == 2

EmptyValue == [blank |-> TRUE, tenths |-> 0]

NumberValue(t) == [blank |-> FALSE, tenths |-> t]

NaN == [nan |-> TRUE, tenths |-> 0]

\* parseFloat of the value of a number input.
parseFloat(value) ==
    IF value.blank THEN NaN ELSE [nan |-> FALSE, tenths |-> value.tenths]

\* parseInt of the value of a number input: the digits before the point.
parseInt(value) ==
    IF value.blank THEN NaN ELSE [nan |-> FALSE, tenths |-> DivTrunc(value.tenths, 10) * 10]

isNaN(number) == number.nan

JsonNull == [null |-> TRUE, tenths |-> 0]

\* JSON.stringify of a number: NaN is written as null.
JsonNumber(number) ==
    IF number.nan THEN JsonNull ELSE [null |-> FALSE, tenths |-> number.tenths]

NoAlert == [open |-> FALSE]

\* alert(text + detail); finally tells whether a finally block waits for the
\* dialog to be dismissed.
Alert(text, detail, finally) ==
    [open |-> TRUE, text |-> text, detail |-> detail, finally |-> finally]

RemoveAt(seq, i) == [j \in 1..(Len(seq) - 1) |-> IF j < i THEN seq[j] ELSE seq[j + 1]]

\* The fields of a .scenario-item as addScenario inserts it.
NewScenarioFields ==
    [name |-> <<>>, policyType |-> "", magnitude |-> EmptyValue,
     duration |-> NumberValue(120)]

\* What the user may leave in the four fields of a scenario item: two
\* complete scenarios in range, one with a magnitude and one with a duration
\* the inputs' min/max attributes exclude, and one per field left unusable.
ScenarioFieldStates ==
    {[name |-> <<65>>, policyType |-> "Tax Reform", magnitude |-> NumberValue(100),
      duration |-> NumberValue(120)],
     [name |-> <<66>>, policyType |-> "Subsidy Change", magnitude |-> NumberValue(-155),
      duration |-> NumberValue(60)],
     [name |-> <<67>>, policyType |-> "Fuel Price Change", magnitude |-> NumberValue(1000),
      duration |-> NumberValue(120)],
     [name |-> <<68>>, policyType |-> "Tax Reform", magnitude |-> NumberValue(100),
      duration |-> NumberValue(610)],
     [name |-> <<>>, policyType |-> "Tax Reform", magnitude |-> NumberValue(100),
      duration |-> NumberValue(120)],
     [name |-> <<65>>, policyType |-> "", magnitude |-> NumberValue(100),
      duration |-> NumberValue(120)],
     [name |-> <<65>>, policyType |-> "Tax Reform", magnitude |-> EmptyValue,
      duration |-> NumberValue(120)],
     [name |-> <<65>>, policyType |-> "Tax Reform", magnitude |-> NumberValue(100),
      duration |-> EmptyValue],
     NewScenarioFields}

ScenarioItem(id, fields) ==
    [id |-> id, name |-> fields.name, policyType |-> fields.policyType,
     magnitude |-> fields.magnitude, duration |-> fields.duration]

\* #policy-form before the user touches it.
BlankForm ==
    [policy_type |-> "", magnitude |-> NumberValue(0), duration_months |-> NumberValue(120),
     sectors |-> {}, description |-> <<>>]

\* What the user may leave in #policy-form: the README sample, a form with
\* every field used and a duration of "12.5", and one with the duration
\* cleared.
FormStates ==
    {BlankForm,
     [policy_type |-> "Fuel Price Change", magnitude |-> NumberValue(200),
      duration_months |-> NumberValue(120), sectors |-> {}, description |-> <<>>],
     [policy_type |-> "Tax Reform", magnitude |-> NumberValue(-105),
      duration_months |-> NumberValue(125), sectors |-> {"Transport", "Energy"},
      description |-> <<110>>],
     [policy_type |-> "Subsidy Change", magnitude |-> NumberValue(200),
      duration_months |-> EmptyValue, sectors |-> {}, description |-> <<>>]}

\* The values of the checked sector checkboxes, in page order.
CheckedSectors(form) == SelectSeq(SECTORS, LAMBDA sector : sector \in form.sectors)

\* A payload that also depends on what else is in flight.
PolicyDataNumbered(form) ==
    [policy_type |-> form.policy_type,
     magnitude |-> parseFloat(form.magnitude),
     duration_months |-> parseInt(form.duration_months),
     affected_sectors |-> IF Len(CheckedSectors(form)) > 0
                          THEN [null |-> FALSE, list |-> CheckedSectors(form)]
                          ELSE [null |-> TRUE, list |-> <<>>],
     description |-> IF calls = <<>> THEN form.description ELSE <<Len(calls)>>]

\* A payload that keeps the empty array of an unchecked form.
PolicyDataEmptyList(form) ==
    [policy_type |-> form.policy_type,
     magnitude |-> parseFloat(form.magnitude),
     duration_months |-> parseInt(form.duration_months),
     affected_sectors |-> [null |-> FALSE, list |-> CheckedSectors(form)],
     description |-> form.description]

\* policyData of handleSimulation.
PolicyData(form) ==
    [policy_type |-> form.policy_type,
     magnitude |-> parseFloat(form.magnitude),
     duration_months |-> parseInt(form.duration_months),
     affected_sectors |-> IF Len(CheckedSectors(form)) > 0
                          THEN [null |-> FALSE, list |-> CheckedSectors(form)]
                          ELSE [null |-> TRUE, list |-> <<>>],
     description |-> form.description]

\* JSON.stringify(policyData), the body of POST /simulate.
SimulateBody(policyData) ==
    [policy_type |-> policyData.policy_type,
     magnitude |-> JsonNumber(policyData.magnitude),
     duration_months |-> JsonNumber(policyData.duration_months),
     affected_sectors |-> policyData.affected_sectors,
     description |-> policyData.description]

\* The test handleComparison makes on the number of scenario items, relaxed.
TooFewScenariosNone(count) == count < 1

\* scenarioElements.length < 2
TooFewScenarios(count) == count < 2

\* A test that looks at the name and the policy type only.
ScenarioIncompleteTextOnly(item) ==
    \/ item.name = <<>>
    \/ item.policyType = ""

\* !name || !policyType || isNaN(magnitude) || isNaN(duration)
ScenarioIncomplete(item) ==
    \/ item.name = <<>>
    \/ item.policyType = ""
    \/ isNaN(parseFloat(item.magnitude))
    \/ isNaN(parseInt(item.duration))

\* The object handleComparison pushes for a scenario item.
ScenarioData(item) ==
    [name |-> item.name, policy_type |-> item.policyType,
     magnitude |-> parseFloat(item.magnitude),
     duration_months |-> parseInt(item.duration)]

\* JSON.stringify({ scenarios }), the body of POST /compare.
CompareBody(scenarioData) ==
    [scenarios |-> [i \in 1..Len(scenarioData) |->
        [name |-> scenarioData[i].name,
         policy_type |-> scenarioData[i].policy_type,
         magnitude |-> JsonNumber(scenarioData[i].magnitude),
         duration_months |-> JsonNumber(scenarioData[i].duration_months)]]]

(***************************************************************************)
(* APIClient.get and APIClient.post: one fetch, then the status test and   *)
(* the parsing of the body.                                                *)
(***************************************************************************)

\* The statuses a response is given here.
HttpStatuses == {200, 201, 400, 404, 422, 500}

\* response.ok: the status is in 200..299.
ResponseOk(status) == status >= 200 /\ status <= 299

StatusText(status) ==
    CASE status = 200 -> "200" [] status = 201 -> "201" [] status = 400 -> "400"
      [] status = 404 -> "404" [] status = 422 -> "422" [] status = 500 -> "500"

\* The bodies a response is given here: text that is not JSON, the JSON
\* value null, a JSON number, and JSON objects without a detail, with an
\* empty detail and with a detail.
NoDetail == [defined |-> FALSE, text |-> ""]

Detail(text) == [defined |-> TRUE, text |-> text]

ResponseBodies ==
    {[json |-> FALSE, kind |-> "text", detail |-> NoDetail],
     [json |-> TRUE, kind |-> "null", detail |-> NoDetail],
     [json |-> TRUE, kind |-> "number", detail |-> NoDetail],
     [json |-> TRUE, kind |-> "object", detail |-> NoDetail],
     [json |-> TRUE, kind |-> "object", detail |-> Detail("")],
     [json |-> TRUE, kind |-> "object", detail |-> Detail("InvalidInputError")]}

\* The {} that replaces a body response.json() could not parse.
EmptyObject == [json |-> TRUE, kind |-> "object", detail |-> NoDetail]

ErrorOf(name, message) == [name |-> name, message |-> message]

\* What fetch comes back with: a rejection (the network failed) or a
\* response.
NetworkFailure == [failed |-> TRUE, error |-> ErrorOf("TypeError", <<"Failed to fetch">>)]

FetchOutcomes ==
    {NetworkFailure}
        \cup {[failed |-> FALSE, status |-> st, body |-> b] :
                  st \in HttpStatuses, b \in ResponseBodies}

ApiCalls == [method : {"GET", "POST"}, outcome : FetchOutcomes]

NotSettled == [settled |-> FALSE]

Resolved(value) == [settled |-> TRUE, resolved |-> TRUE, value |-> value]

Rejected(error) == [settled |-> TRUE, resolved |-> FALSE, error |-> error]

\* `HTTP error! status: ${response.status}`
HttpErrorMessage(status) == <<"HTTP error! status: ", StatusText(status)>>

\* return await response.json()
ParsedBody(body) ==
    IF body.json THEN Resolved(body)
    ELSE Rejected(ErrorOf("SyntaxError", <<"Unexpected token">>))

\* APIClient.get: the catch block logs and rethrows.
ApiGet(outcome) ==
    IF outcome.failed THEN Rejected(outcome.error)
    ELSE IF ~ResponseOk(outcome.status)
    THEN Rejected(ErrorOf("Error", HttpErrorMessage(outcome.status)))
    ELSE ParsedBody(outcome.body)

\* errorData.detail || `HTTP error! status: ...`, errorData being the parsed
\* body or {} when it does not parse; reading .detail of null throws.
PostErrorOf(status, body) ==
    LET errorData == IF body.json THEN body ELSE EmptyObject
    IN  IF errorData.kind = "null"
        THEN ErrorOf("TypeError", <<"Cannot read properties of null (reading 'detail')">>)
        ELSE IF errorData.detail.defined /\ errorData.detail.text # ""
        THEN ErrorOf("Error", <<errorData.detail.text>>)
        ELSE ErrorOf("Error", HttpErrorMessage(status))

\* APIClient.post: the catch block logs and rethrows.
ApiPost(outcome) ==
    IF outcome.failed THEN Rejected(outcome.error)
    ELSE IF ~ResponseOk(outcome.status)
    THEN Rejected(PostErrorOf(outcome.status, outcome.body))
    ELSE ParsedBody(outcome.body)

InitApi ==
    /\ apiCall = [method |-> "GET", outcome |-> NetworkFailure]
    /\ apiResult = NotSettled

\* Any call with any outcome of its fetch.
InitApiCalls ==
    /\ apiCall \in ApiCalls
    /\ apiResult = NotSettled

get ==
    /\ apiResult = NotSettled
    /\ apiCall.method = "GET"
    /\ apiResult' = ApiGet(apiCall.outcome)
    /\ UNCHANGED apiCall
    /\ OnlyApi

post ==
    /\ apiResult = NotSettled
    /\ apiCall.method = "POST"
    /\ apiResult' = ApiPost(apiCall.outcome)
    /\ UNCHANGED apiCall
    /\ OnlyApi

NextApi == get \/ post

(***************************************************************************)
(* The charts: create*Chart on the canvases of the dashboard and of the    *)
(* comparison, as displayResults and displayComparisonResults call them.   *)
(***************************************************************************)

\* How many results, and how many comparisons, are displayed at most.
MaxDisplays == 2

\* The canvases of the dashboard, in the order displayResults fills them.
DashboardCanvases == <<"inflation-chart", "risk-chart", "sector-chart", "sentiment-chart">>

ComparisonCanvas == "comparison-chart"

Canvases == {DashboardCanvases[i] : i \in 1..Len(DashboardCanvases)} \cup {ComparisonCanvas}

\* The canvases whose create function updates a details panel.
CanvasesWithDetails == {"inflation-chart", "risk-chart", "sentiment-chart"}

\* A canvas no chart was ever created on; chart = 0 stands for a ctx.chart
\* that is undefined or null.
EmptyCanvas == [chart |-> 0, constructed |-> <<>>, threw |-> FALSE]

\* The existing chart dropped without destroy().
DestroyExistingDropped(cv) == [cv EXCEPT !.chart = 0]

\* if (ctx.chart) { ctx.chart.destroy(); ctx.chart = null; }
DestroyExisting(cv) ==
    IF cv.chart # 0
    THEN [cv EXCEPT !.constructed[cv.chart].destroyed = TRUE, !.chart = 0]
    ELSE cv

\* ctx.chart = new Chart(ctx, ...) when the constructor returns.
Construct(cv, data) ==
    [chart |-> Len(cv.constructed) + 1,
     constructed |-> Append(cv.constructed, [data |-> data, destroyed |-> FALSE]),
     threw |-> FALSE]

\* A constructor error nothing catches.
ConstructorErrorEscapesUncaught(throws) == throws

\* try { ... } catch (error) { console.error(...) }: the error stops there.
ConstructorErrorEscapes(throws) == FALSE

\* The page as a run of display calls goes through it.
PageOf(charts, details, recs, thrown) ==
    [charts |-> charts, details |-> details, recs |-> recs, thrown |-> thrown]

\* create*Chart(canvasId, data); throws tells whether the constructor
\* throws.  Nothing runs once an exception is on its way out.
createChart(page, canvasId, data, throws) ==
    IF page.thrown THEN page
    ELSE LET cleared == DestroyExisting(page.charts[canvasId])
             built == IF throws THEN [cleared EXCEPT !.threw = TRUE]
                      ELSE Construct(cleared, data)
             escapes == ConstructorErrorEscapes(throws)
         IN  PageOf([page.charts EXCEPT ![canvasId] = built],
                    IF canvasId \in CanvasesWithDetails /\ ~escapes
                    THEN [page.details EXCEPT ![canvasId] = data]
                    ELSE page.details,
                    page.recs,
                    escapes)

RECURSIVE CreateDashboardCharts(_, _, _, _)
CreateDashboardCharts(page, n, data, throwing) ==
    IF n = 0 THEN page
    ELSE createChart(CreateDashboardCharts(page, n - 1, data, throwing),
                     DashboardCanvases[n], data, DashboardCanvases[n] \in throwing)

\* this.displayRecommendations(result.recommendations)
displayRecommendations(page, data) ==
    IF page.thrown THEN page ELSE [page EXCEPT !.recs = data]

InitCharts ==
    /\ canvasCharts = [c \in Canvases |-> EmptyCanvas]
    /\ detailsPanels = [c \in CanvasesWithDetails |-> 0]
    /\ recommendationsDiv = 0
    /\ shown = [results |-> 0, comparisons |-> 0]
    /\ uncaught = FALSE

\* displayResults(result) for the next result: the four charts, then the
\* recommendations; throwing holds the canvases whose constructor throws.
displayResults ==
    /\ shown.results < MaxDisplays
    /\ \E throwing \in SUBSET {DashboardCanvases[i] : i \in 1..Len(DashboardCanvases)} :
          LET data == shown.results + 1
              start == PageOf(canvasCharts, detailsPanels, recommendationsDiv, FALSE)
              after == displayRecommendations(
                           CreateDashboardCharts(start, Len(DashboardCanvases), data, throwing),
                           data)
          IN  /\ canvasCharts' = after.charts
              /\ detailsPanels' = after.details
              /\ recommendationsDiv' = after.recs
              /\ uncaught' = (uncaught \/ after.thrown)
    /\ shown' = [shown EXCEPT !.results = @ + 1]
    /\ OnlyCharts

\* displayComparisonResults(result) for the next comparison: the chart on
\* the comparison canvas.
displayComparisonResults ==
    /\ shown.comparisons < MaxDisplays
    /\ \E throws \in BOOLEAN :
          LET data == shown.comparisons + 1
              start == PageOf(canvasCharts, detailsPanels, recommendationsDiv, FALSE)
              after == createChart(start, ComparisonCanvas, data, throws)
          IN  /\ canvasCharts' = after.charts
              /\ uncaught' = (uncaught \/ after.thrown)
    /\ shown' = [shown EXCEPT !.comparisons = @ + 1]
    /\ UNCHANGED <<detailsPanels, recommendationsDiv>>
    /\ OnlyCharts

NextCharts == displayResults \/ displayComparisonResults

(***************************************************************************)
(* Tab navigation: the click listener setupTabNavigation puts on every     *)
(* .tab-button.                                                            *)
(***************************************************************************)

\* The .tab-button elements, by their data-tab attribute.
TabButtons == {"simulate", "compare", "history", "about"}

\* getAttribute('data-tab')
DataTab(button) == button

\* `${tabName}-tab`
TabContentId(tabName) ==
    CASE tabName = "simulate" -> "simulate-tab"
      [] tabName = "compare" -> "compare-tab"
      [] tabName = "history" -> "history-tab"
      [] tabName = "about" -> "about-tab"

\* The .tab-content elements, by id; no element has the id about-tab.
TabContents == {"simulate-tab", "compare-tab", "history-tab"}

NoClick == "none"

\* The class left where it is.
RemoveActiveKept(elements) == elements

\* forEach(el => el.classList.remove('active'))
RemoveActive(elements) == {}

\* The constructor has run; which elements the markup marks active is not
\* known here.
InitTabs ==
    /\ activeButtons = {"simulate"}
    /\ activeContents = {"simulate-tab"}
    /\ currentTab = "simulate"
    /\ lastClicked = NoClick

InitTabsAnyMarkup ==
    /\ activeButtons \in SUBSET TabButtons
    /\ activeContents \in SUBSET TabContents
    /\ currentTab = "simulate"
    /\ lastClicked = NoClick

\* The click listener of a tab button.
ClickTab(button) ==
    /\ button \in TabButtons
    /\ LET tabName == DataTab(button)
       IN  /\ activeButtons' = RemoveActive(activeButtons) \cup {button}
           /\ activeContents' =
                 RemoveActive(activeContents)
                     \cup (IF TabContentId(tabName) \in TabContents
                           THEN {TabContentId(tabName)} ELSE {})
           /\ currentTab' = tabName
    /\ lastClicked' = button
    /\ OnlyTabs

NextTabs == \E button \in TabButtons : ClickTab(button)

(***************************************************************************)
(* SnowflakeApp: initialize, checkAPIHealth, loadInitialData and           *)
(* showNotification.  A message is the sequence of its words.              *)
(***************************************************************************)

CannotConnect == <<"Cannot", "connect">>

\* message.includes(part)
Includes(message, part) ==
    \E i \in 1..(Len(message) - Len(part) + 1) :
        SubSeq(message, i, i + Len(part) - 1) = part

\* 'Warning: API may not be fully operational'
NotOperationalMessage == <<"Warning:", "API", "may", "not", "be", "fully", "operational">>

\* 'Warning: Cannot connect to backend API'
CannotConnectMessage == <<"Warning:", "Cannot", "connect", "to", "backend", "API">>

NotificationMessages ==
    {NotOperationalMessage, CannotConnectMessage, CannotConnect,
     <<"connect", "Cannot">>, <<"Simulation", "failed">>, <<>>}

NotificationTypes == {"info", "warning", "error"}

\* What apiClient.healthCheck() settles with: a healthy or an unhealthy
\* status, a body without a status, the JSON value null, or a rejection.
HealthOutcomes == {"healthy", "degraded", "no status", "null", "rejected"}

\* What apiClient.getEconomicIndicators() settles with.
IndicatorsOutcomes == {"resolved", "rejected"}

AppInputs ==
    [health : HealthOutcomes, indicators : IndicatorsOutcomes,
     message : NotificationMessages, type : NotificationTypes]

\* An alert for every error.
RaisesAlertAnyError(message, type) == type = "error"

\* if (type === 'error') { if (!message.includes('Cannot connect')) alert(message) }
RaisesAlert(message, type) ==
    type = "error" /\ ~Includes(message, CannotConnect)

\* showNotification(message, type) called by caller: the alerts after it.
AlertsAfterNotification(alerts, caller, message, type) ==
    IF RaisesAlert(message, type)
    THEN Append(alerts, [caller |-> caller, message |-> message])
    ELSE alerts

\* The notifications checkAPIHealth makes once healthCheck has settled:
\* none for a healthy status, a warning for any other status, an error for
\* a rejection and for a null body, whose .status throws inside the try.
HealthNotification(outcome) ==
    CASE outcome = "healthy" -> <<>>
      [] outcome \in {"degraded", "no status"} ->
             <<[message |-> NotOperationalMessage, type |-> "warning"]>>
      [] outcome \in {"null", "rejected"} ->
             <<[message |-> CannotConnectMessage, type |-> "error"]>>

AppIdle == [initialized |-> FALSE, health |-> "idle", indicators |-> "idle", shown |-> FALSE]

InitApp ==
    /\ appInput = [health |-> "healthy", indicators |-> "resolved",
                   message |-> <<>>, type |-> "info"]
    /\ appPhase = AppIdle
    /\ appAlerts = <<>>

InitAppInputs ==
    /\ appInput \in AppInputs
    /\ appPhase = AppIdle
    /\ appAlerts = <<>>

\* initialize(): the two requests are started and not awaited.
initialize ==
    /\ ~appPhase.initialized
    /\ appPhase' = [appPhase EXCEPT !.initialized = TRUE, !.health = "pending",
                                   !.indicators = "pending"]
    /\ UNCHANGED <<appInput, appAlerts>>
    /\ OnlyApp

\* checkAPIHealth after its await.
checkAPIHealth ==
    /\ appPhase.health = "pending"
    /\ LET made == HealthNotification(appInput.health)
       IN  appAlerts' = IF made = <<>> THEN appAlerts
                        ELSE AlertsAfterNotification(appAlerts, "checkAPIHealth",
                                                     made[1].message, made[1].type)
    /\ appPhase' = [appPhase EXCEPT !.health = "settled"]
    /\ UNCHANGED appInput
    /\ OnlyApp

\* loadInitialData after its await: the outcome is logged.
loadInitialData ==
    /\ appPhase.indicators = "pending"
    /\ appPhase' = [appPhase EXCEPT !.indicators = "settled"]
    /\ UNCHANGED <<appInput, appAlerts>>
    /\ OnlyApp

\* showNotification(message, type) called from the page.
showNotification ==
    /\ appPhase.initialized
    /\ ~appPhase.shown
    /\ appAlerts' = AlertsAfterNotification(appAlerts, "page", appInput.message,
                                            appInput.type)
    /\ appPhase' = [appPhase EXCEPT !.shown = TRUE]
    /\ UNCHANGED appInput
    /\ OnlyApp

NextApp == initialize \/ checkAPIHealth \/ loadInitialData \/ showNotification

(***************************************************************************)
(* The ranking table: displayComparisonTable writes the rows as HTML text  *)
(* into innerHTML, and the browser parses that text into the rows of the   *)
(* page.  Text is a sequence of character codes.  Of the six cells of a    *)
(* row the rank and the name are kept; the others hold figures and fixed   *)
(* words the service computes.                                             *)
(***************************************************************************)

TrOpen == <<60, 116, 114, 62>>          \* "<tr>"

TrClose == <<60, 47, 116, 114, 62>>     \* "</tr>"

TdOpen == <<60, 116, 100, 62>>          \* "<td>"

TdClose == <<60, 47, 116, 100, 62>>     \* "</td>"

\* The names a scenario is given here: "A", "B" and "A<tr>".
TableNames == {<<65>>, <<66>>, <<65>> \o TrOpen}

\* The tables the service answers a comparison of two scenarios with.
ReceivedTables ==
    {CompareTable(<<a, b>>) : a, b \in [name : TableNames, policy : PolicyInputs]}

\* `${row.rank}` for a rank below 10.
RankText(rank) == <<48 + rank>>

\* The template of one row.
RowHtml(row) ==
    TrOpen \o TdOpen \o RankText(row.rank) \o TdClose
           \o TdOpen \o row.name \o TdClose \o TrClose

\* comparisonData.map(row => `...`).join('')
RECURSIVE TableHtml(_)
TableHtml(comparisonData) ==
    IF comparisonData = <<>> THEN <<>>
    ELSE RowHtml(Head(comparisonData)) \o TableHtml(Tail(comparisonData))

\* The text holds the tag at position i.
TagAt(html, i, tag) ==
    /\ i + Len(tag) - 1 <= Len(html)
    /\ SubSeq(html, i, i + Len(tag) - 1) = tag

\* A character added to the last cell of the last row.
AddChar(rows, ch) ==
    LET r == Len(rows)
        c == Len(rows[r])
    IN  [rows EXCEPT ![r][c] = Append(@, ch)]

\* The rows the parser builds from the text of a table body: <tr> starts a
\* row, closing the cell and the row that are open; <td> starts a cell, in
\* a new row when none is open; text outside a cell is not part of a row.
RECURSIVE ParseRows(_, _, _, _)
ParseRows(html, i, rows, inCell) ==
    IF i > Len(html) THEN rows
    ELSE IF TagAt(html, i, TrOpen)
    THEN ParseRows(html, i + Len(TrOpen), Append(rows, <<>>), FALSE)
    ELSE IF TagAt(html, i, TdOpen)
    THEN ParseRows(html, i + Len(TdOpen),
                   IF rows = <<>> THEN << <<<<>>>> >>
                   ELSE [rows EXCEPT ![Len(rows)] = Append(@, <<>>)],
                   TRUE)
    ELSE IF TagAt(html, i, TdClose)
    THEN ParseRows(html, i + Len(TdClose), rows, FALSE)
    ELSE IF TagAt(html, i, TrClose)
    THEN ParseRows(html, i + Len(TrClose), rows, FALSE)
    ELSE ParseRows(html, i + 1, IF inCell THEN AddChar(rows, html[i]) ELSE rows, inCell)

\* container.innerHTML = tableHtml
RenderedRows(comparisonData) == ParseRows(TableHtml(comparisonData), 1, <<>>, FALSE)

\* const scenarioNames = comparisonData.map(s => s.name)
ComparisonChartLabels(comparisonData) ==
    [i \in 1..Len(comparisonData) |-> comparisonData[i].name]

NoTable == [rendered |-> FALSE]

NoLabels == [created |-> FALSE]

InitTable ==
    /\ tableReceived = <<>>
    /\ tableContainer = NoTable
    /\ chartLabels = NoLabels

\* Any table the service may send has arrived.
InitTableReceived ==
    /\ tableReceived \in ReceivedTables
    /\ tableContainer = NoTable
    /\ chartLabels = NoLabels

displayComparisonTable ==
    /\ tableReceived # <<>>
    /\ tableContainer = NoTable
    /\ tableContainer' = [rendered |-> TRUE, rows |-> RenderedRows(tableReceived)]
    /\ UNCHANGED <<tableReceived, chartLabels>>
    /\ OnlyTable

\* displayComparisonResults creates the chart after the table.
createComparisonChart ==
    /\ tableContainer # NoTable
    /\ chartLabels = NoLabels
    /\ chartLabels' = [created |-> TRUE, labels |-> ComparisonChartLabels(tableReceived)]
    /\ UNCHANGED <<tableReceived, tableContainer>>
    /\ OnlyTable

NextTable == displayComparisonTable \/ createComparisonChart

(***************************************************************************)
(* The service behind POST /simulate and POST /compare (written            *)
(* specification 4.5, 4.6, 7): input validation, then the orchestrator,    *)
(* once per scenario for a comparison.                                     *)
(***************************************************************************)
MagnitudeInRange(json) == ~json.null /\ json.tenths >= -500 /\ json.tenths <= 500

DurationInRange(json) == ~json.null /\ json.tenths >= 10 /\ json.tenths <= 600

ValidPolicyInput(body) ==
    /\ body.policy_type \in POLICY_TYPES
    /\ MagnitudeInRange(body.magnitude)
    /\ DurationInRange(body.duration_months)

ValidCompareInput(body) ==
    /\ Len(body.scenarios) >= 2
    /\ \A i \in 1..Len(body.scenarios) : ValidPolicyInput(body.scenarios[i])

ServerPolicy(body) ==
    [policy_type |-> body.policy_type, magnitude |-> body.magnitude.tenths,
     duration_months |-> body.duration_months.tenths \div 10]

ServerScenarios(body) ==
    [i \in 1..Len(body.scenarios) |->
        [name |-> body.scenarios[i].name, policy |-> ServerPolicy(body.scenarios[i])]]

\* The rows a comparison collected, put back in the order of its scenarios.
RowsByIndex(collected) ==
    [k \in 1..Len(collected) |->
        collected[CHOOSE j \in 1..Len(collected) : collected[j].index = k].row]

InvalidInputError == [ok |-> FALSE, detail |-> "InvalidInputError"]

\* The response the service gives to a call: an error for invalid input,
\* else the simulation result, or the table ranked from the collected rows.
ServerResponse(call) ==
    IF call.kind = "simulate"
    THEN IF ValidPolicyInput(call.body)
         THEN [ok |-> TRUE, result |-> Orchestrate(ServerPolicy(call.body))]
         ELSE InvalidInputError
    ELSE IF ValidCompareInput(call.body)
         THEN [ok |-> TRUE, result |-> [comparison_table |-> RankRows(RowsByIndex(call.collected))]]
         ELSE InvalidInputError

\* The service has what it needs to answer the call.
ServerReady(call) ==
    IF call.kind = "simulate" THEN TRUE
    ELSE IF ~ValidCompareInput(call.body) THEN TRUE
    ELSE Len(call.collected) = Len(call.body.scenarios)

\* A response handed to whichever call has waited longest.
ResponseForOldest(cs, i) == ServerResponse(cs[1])

\* const response = await fetch(...): the response to the call's own request.
ResponseFor(cs, i) == ServerResponse(cs[i])

\* error.message in the catch block: fetch itself failed, or post threw
\* Error(errorData.detail) for a response that is not ok.
FailureMessages(cs, i) ==
    {"Failed to fetch"}
        \cup (IF ServerReady(cs[i]) /\ ~ResponseFor(cs, i).ok
              THEN {ResponseFor(cs, i).detail} ELSE {})

\* The failed request put back in flight: sent again.
CallsAfterFailureRetried(cs, i) == cs

\* After the catch block the invocation is over (catch, finally, return): its
\* request is not in flight any more and nothing is sent in its place.
CallsAfterFailure(cs, i) == RemoveAt(cs, i)

\* No response has arrived yet.
NoArrivals == [overtaken |-> 0, latest |-> [arrived |-> FALSE]]

\* The invocation at position i of the calls in flight leaves them without
\* having shown a result: the overtaken ones before it stay overtaken.
ArrivalsAfterRemoval(a, i) ==
    [a EXCEPT !.overtaken = IF i <= @ THEN @ - 1 ELSE @]

\* The response of the simulation at position i has arrived.  The calls
\* are kept in submission order, so the ones before i were submitted
\* earlier and are now overtaken; the result is the latest submitted one to
\* have arrived unless the simulation was itself overtaken.
ArrivalsAfterResult(a, i, result) ==
    IF i <= a.overtaken
    THEN [a EXCEPT !.overtaken = @ - 1]
    ELSE [overtaken |-> i - 1, latest |-> [arrived |-> TRUE, result |-> result]]

InitUI ==
    /\ now = 0
    /\ scenarios = <<>>
    /\ scenarioItems = <<>>
    /\ compareDisabled \in BOOLEAN
    /\ policyForm = BlankForm
    /\ calls = <<>>
    /\ overlayHidden = TRUE
    /\ dashboard = [hidden |-> TRUE]
    /\ comparisonResults = [hidden |-> TRUE]
    /\ alertBox = NoAlert
    /\ arrivals = NoArrivals

\* The page as the markup is expected to deliver it: compare button disabled.
InitIdleUI == InitUI /\ compareDisabled

\* The page after two scenarios were added and filled in, both in range.
InitComparisonReady ==
    /\ now = 1
    /\ scenarios = <<0, 1>>
    /\ scenarioItems =
          <<ScenarioItem(0, [name |-> <<65>>, policyType |-> "Tax Reform",
                             magnitude |-> NumberValue(100),
                             duration |-> NumberValue(120)]),
            ScenarioItem(1, [name |-> <<66>>, policyType |-> "Subsidy Change",
                             magnitude |-> NumberValue(-155),
                             duration |-> NumberValue(60)])>>
    /\ compareDisabled = FALSE
    /\ policyForm = BlankForm
    /\ calls = <<>>
    /\ overlayHidden = TRUE
    /\ dashboard = [hidden |-> TRUE]
    /\ comparisonResults = [hidden |-> TRUE]
    /\ alertBox = NoAlert
    /\ arrivals = NoArrivals

\* The user fills in #policy-form.
FillForm ==
    /\ ~alertBox.open
    /\ \E f \in FormStates : policyForm' = f
    /\ UNCHANGED <<arrivals, now, scenarios, scenarioItems, compareDisabled, calls, overlayHidden,
                   dashboard, comparisonResults, alertBox>>
    /\ OnlyUI

\* handleSimulation up to its await: the payload is built from the form,
\* the overlay is shown and POST /simulate is issued.
handleSimulation ==
    /\ ~alertBox.open
    /\ Len(calls) < MaxInFlight
    /\ calls' = Append(calls, [kind |-> "simulate", form |-> policyForm,
                               body |-> SimulateBody(PolicyData(policyForm)),
                               collected |-> <<>>])
    /\ overlayHidden' = FALSE
    /\ UNCHANGED <<arrivals, now, scenarios, scenarioItems, compareDisabled, policyForm,
                   dashboard, comparisonResults, alertBox>>
    /\ OnlyUI

\* handleSimulation after its await resolved: displayResults, then finally.
handleSimulationThen(i) ==
    /\ ~alertBox.open
    /\ i \in DOMAIN calls
    /\ calls[i].kind = "simulate"
    /\ ServerReady(calls[i])
    /\ ResponseFor(calls, i).ok
    /\ dashboard' = [hidden |-> FALSE, result |-> ResponseFor(calls, i).result]
    /\ overlayHidden' = TRUE
    /\ calls' = RemoveAt(calls, i)
    /\ arrivals' = ArrivalsAfterResult(arrivals, i, ResponseFor(calls, i).result)
    /\ UNCHANGED <<now, scenarios, scenarioItems, compareDisabled, policyForm,
                   comparisonResults, alertBox>>
    /\ OnlyUI

\* A catch block that also empties the dashboard.
handleSimulationCatchCleared(i) ==
    /\ ~alertBox.open
    /\ i \in DOMAIN calls
    /\ calls[i].kind = "simulate"
    /\ \E message \in FailureMessages(calls, i) :
          alertBox' = Alert("Error running simulation: ", message, TRUE)
    /\ calls' = CallsAfterFailure(calls, i)
    /\ arrivals' = ArrivalsAfterRemoval(arrivals, i)
    /\ dashboard' = [hidden |-> TRUE]
    /\ UNCHANGED <<now, scenarios, scenarioItems, compareDisabled, policyForm,
                   overlayHidden, comparisonResults>>
    /\ OnlyUI

\* handleSimulation after its await rejected: the alert of the catch block;
\* finally runs when the dialog is dismissed.
handleSimulationCatch(i) ==
    /\ ~alertBox.open
    /\ i \in DOMAIN calls
    /\ calls[i].kind = "simulate"
    /\ \E message \in FailureMessages(calls, i) :
          alertBox' = Alert("Error running simulation: ", message, TRUE)
    /\ calls' = CallsAfterFailure(calls, i)
    /\ arrivals' = ArrivalsAfterRemoval(arrivals, i)
    /\ UNCHANGED <<now, scenarios, scenarioItems, compareDisabled, policyForm,
                   overlayHidden, dashboard, comparisonResults>>
    /\ OnlyUI

\* addScenario: a new item under the id Date.now(), which is not earlier
\* than the last time read.
addScenario ==
    /\ ~alertBox.open
    /\ Len(scenarioItems) < MaxScenarios
    /\ \E scenarioId \in now..MaxTime :
          /\ now' = scenarioId
          /\ scenarioItems' = Append(scenarioItems, ScenarioItem(scenarioId, NewScenarioFields))
          /\ scenarios' = Append(scenarios, scenarioId)
    /\ compareDisabled' = IF Len(scenarios) + 1 >= 2 THEN FALSE ELSE compareDisabled
    /\ UNCHANGED <<arrivals, policyForm, calls, overlayHidden, dashboard, comparisonResults, alertBox>>
    /\ OnlyUI

\* A removal that leaves the compare button as it is.
removeScenarioKeepButton(scenarioId) ==
    /\ ~alertBox.open
    /\ scenarioItems' =
          IF \E i \in DOMAIN scenarioItems : scenarioItems[i].id = scenarioId
          THEN RemoveAt(scenarioItems,
                        CHOOSE i \in DOMAIN scenarioItems :
                            /\ scenarioItems[i].id = scenarioId
                            /\ \A j \in 1..(i - 1) : scenarioItems[j].id # scenarioId)
          ELSE scenarioItems
    /\ scenarios' = SelectSeq(scenarios, LAMBDA id : id # scenarioId)
    /\ UNCHANGED <<arrivals, now, compareDisabled, policyForm, calls, overlayHidden, dashboard,
                   comparisonResults, alertBox>>
    /\ OnlyUI

\* removeScenario(scenarioId): the first element carrying the id leaves the
\* page, every copy of the id leaves this.scenarios.
removeScenario(scenarioId) ==
    /\ ~alertBox.open
    /\ scenarioItems' =
          IF \E i \in DOMAIN scenarioItems : scenarioItems[i].id = scenarioId
          THEN RemoveAt(scenarioItems,
                        CHOOSE i \in DOMAIN scenarioItems :
                            /\ scenarioItems[i].id = scenarioId
                            /\ \A j \in 1..(i - 1) : scenarioItems[j].id # scenarioId)
          ELSE scenarioItems
    /\ scenarios' = SelectSeq(scenarios, LAMBDA id : id # scenarioId)
    /\ compareDisabled' = IF Len(scenarios') < 2 THEN TRUE ELSE compareDisabled
    /\ UNCHANGED <<arrivals, now, policyForm, calls, overlayHidden, dashboard, comparisonResults,
                   alertBox>>
    /\ OnlyUI

\* The user fills in the fields of a scenario item.
FillScenario ==
    /\ ~alertBox.open
    /\ \E i \in DOMAIN scenarioItems : \E f \in ScenarioFieldStates :
          scenarioItems' = [scenarioItems EXCEPT ![i] = ScenarioItem(scenarioItems[i].id, f)]
    /\ UNCHANGED <<arrivals, now, scenarios, compareDisabled, policyForm, calls, overlayHidden,
                   dashboard, comparisonResults, alertBox>>
    /\ OnlyUI

\* handleComparison up to its await, run by a click on #compare-btn: the two
\* checks, each ending in an alert and a return, else the overlay is shown
\* and POST /compare is issued.
handleComparison ==
    /\ ~alertBox.open
    /\ ~compareDisabled
    /\ Len(calls) < MaxInFlight
    /\ IF TooFewScenarios(Len(scenarioItems))
       THEN /\ alertBox' = Alert("Please add at least 2 scenarios to compare", "", FALSE)
            /\ UNCHANGED <<calls, overlayHidden>>
       ELSE IF \E i \in DOMAIN scenarioItems : ScenarioIncomplete(scenarioItems[i])
       THEN /\ alertBox' = Alert("Please fill in all scenario fields", "", FALSE)
            /\ UNCHANGED <<calls, overlayHidden>>
       ELSE /\ calls' = Append(calls,
                   [kind |-> "compare",
                    body |-> CompareBody([i \in DOMAIN scenarioItems |->
                                             ScenarioData(scenarioItems[i])]),
                    collected |-> <<>>])
            /\ overlayHidden' = FALSE
            /\ UNCHANGED alertBox
    /\ UNCHANGED <<arrivals, now, scenarios, scenarioItems, compareDisabled, policyForm,
                   dashboard, comparisonResults>>
    /\ OnlyUI

\* The comparison engine runs the orchestrator for one scenario of a valid
\* request; the scenarios of a request are run in any order.
OrchestrateScenario(i, k) ==
    /\ i \in DOMAIN calls
    /\ calls[i].kind = "compare"
    /\ ValidCompareInput(calls[i].body)
    /\ k \in 1..Len(calls[i].body.scenarios)
    /\ \A j \in 1..Len(calls[i].collected) : calls[i].collected[j].index # k
    /\ calls' = [calls EXCEPT ![i].collected =
                    Append(@, [index |-> k,
                               row |-> ScenarioRow(ServerScenarios(calls[i].body)[k])])]
    /\ UNCHANGED <<arrivals, now, scenarios, scenarioItems, compareDisabled, policyForm,
                   overlayHidden, dashboard, comparisonResults, alertBox>>
    /\ OnlyUI

\* handleComparison after its await resolved: displayComparisonResults, then
\* finally.
handleComparisonThen(i) ==
    /\ ~alertBox.open
    /\ i \in DOMAIN calls
    /\ calls[i].kind = "compare"
    /\ ServerReady(calls[i])
    /\ ResponseFor(calls, i).ok
    /\ comparisonResults' =
          [hidden |-> FALSE,
           comparison_table |-> ResponseFor(calls, i).result.comparison_table]
    /\ overlayHidden' = TRUE
    /\ calls' = RemoveAt(calls, i)
    /\ arrivals' = ArrivalsAfterRemoval(arrivals, i)
    /\ UNCHANGED <<now, scenarios, scenarioItems, compareDisabled, policyForm,
                   dashboard, alertBox>>
    /\ OnlyUI

\* handleComparison after its await rejected.
handleComparisonCatch(i) ==
    /\ ~alertBox.open
    /\ i \in DOMAIN calls
    /\ calls[i].kind = "compare"
    /\ \E message \in FailureMessages(calls, i) :
          alertBox' = Alert("Error comparing scenarios: ", message, TRUE)
    /\ calls' = CallsAfterFailure(calls, i)
    /\ arrivals' = ArrivalsAfterRemoval(arrivals, i)
    /\ UNCHANGED <<now, scenarios, scenarioItems, compareDisabled, policyForm,
                   overlayHidden, dashboard, comparisonResults>>
    /\ OnlyUI

\* The user dismisses the alert; a handler stopped in its catch block goes
\* on to finally: showLoading(false).
DismissAlert ==
    /\ alertBox.open
    /\ alertBox' = NoAlert
    /\ overlayHidden' = IF alertBox.finally THEN TRUE ELSE overlayHidden
    /\ UNCHANGED <<arrivals, now, scenarios, scenarioItems, compareDisabled, policyForm, calls,
                   dashboard, comparisonResults>>
    /\ OnlyUI

\* The scenario list is edited between comparisons only: the user builds the
\* list, compares, and waits for the outcome.
AddScenarioWhenIdle == calls = <<>> /\ addScenario

RemoveScenarioWhenIdle == calls = <<>> /\ \E scenarioId \in 0..MaxTime : removeScenario(scenarioId)

FillScenarioWhenIdle == calls = <<>> /\ FillScenario

CompareWhenIdle == calls = <<>> /\ handleComparison

NextCompare ==
    \/ AddScenarioWhenIdle
    \/ RemoveScenarioWhenIdle
    \/ FillScenarioWhenIdle
    \/ CompareWhenIdle
    \/ \E i \in 1..MaxInFlight : \E k \in 1..MaxScenarios : OrchestrateScenario(i, k)
    \/ \E i \in 1..MaxInFlight : handleComparisonThen(i)
    \/ \E i \in 1..MaxInFlight : handleComparisonCatch(i)
    \/ DismissAlert

\* The scenario list alone: scenarios added, filled in and removed.
NextScenarioList ==
    \/ addScenario
    \/ \E scenarioId \in 0..MaxTime : removeScenario(scenarioId)
    \/ FillScenario

\* Simulations and comparisons submitted while others are in flight, on a
\* page whose scenario list is complete.
NextSimulate ==
    \/ FillForm
    \/ handleSimulation
    \/ \E i \in 1..MaxInFlight : handleSimulationThen(i)
    \/ \E i \in 1..MaxInFlight : handleSimulationCatch(i)
    \/ handleComparison
    \/ \E i \in 1..MaxInFlight : \E k \in 1..MaxScenarios : OrchestrateScenario(i, k)
    \/ \E i \in 1..MaxInFlight : handleComparisonThen(i)
    \/ \E i \in 1..MaxInFlight : handleComparisonCatch(i)
    \/ DismissAlert

InitBackend == InitRisk /\ InitRank /\ InitSector /\ InitSentiment /\ InitRec

InitAll == InitBackend /\ InitIdleUI /\ InitApi /\ InitCharts /\ InitTabs /\ InitApp /\ InitTable

InitRiskCalculator == InitRiskInputs /\ InitRank /\ InitSector /\ InitSentiment /\ InitRec /\ InitIdleUI /\ InitApi /\ InitCharts /\ InitTabs /\ InitApp /\ InitTable

InitSectorPropagator == InitRisk /\ InitRank /\ InitSectorInputs /\ InitSentiment /\ InitRec /\ InitIdleUI /\ InitApi /\ InitCharts /\ InitTabs /\ InitApp /\ InitTable

InitSentimentSynthesizer == InitRisk /\ InitRank /\ InitSector /\ InitSentimentInputs /\ InitRec /\ InitIdleUI /\ InitApi /\ InitCharts /\ InitTabs /\ InitApp /\ InitTable

InitRecommender == InitRisk /\ InitRank /\ InitSector /\ InitSentiment /\ InitRecInputs /\ InitIdleUI /\ InitApi /\ InitCharts /\ InitTabs /\ InitApp /\ InitTable

InitApiClient == InitBackend /\ InitIdleUI /\ InitApiCalls /\ InitCharts /\ InitTabs /\ InitApp /\ InitTable

InitChartPage == InitBackend /\ InitIdleUI /\ InitApi /\ InitCharts /\ InitTabs /\ InitApp /\ InitTable

InitTabPage == InitBackend /\ InitIdleUI /\ InitApi /\ InitCharts /\ InitTabsAnyMarkup /\ InitApp /\ InitTable

InitAppPage == InitBackend /\ InitIdleUI /\ InitApi /\ InitCharts /\ InitTabs /\ InitAppInputs /\ InitTable

InitTablePage == InitBackend /\ InitIdleUI /\ InitApi /\ InitCharts /\ InitTabs /\ InitApp /\ InitTableReceived

InitCompare == InitBackend /\ InitUI /\ InitApi /\ InitCharts /\ InitTabs /\ InitApp /\ InitTable

InitScenarioList == InitBackend /\ InitIdleUI /\ InitApi /\ InitCharts /\ InitTabs /\ InitApp /\ InitTable

InitSimulate == InitBackend /\ InitComparisonReady /\ InitApi /\ InitCharts /\ InitTabs /\ InitApp /\ InitTable

SpecRisk == InitRiskCalculator /\ [][NextRisk]_vars

SpecRank == InitAll /\ [][NextRank]_vars

SpecSector == InitSectorPropagator /\ [][NextSector]_vars

SpecSentiment == InitSentimentSynthesizer /\ [][NextSentiment]_vars

SpecRecommend == InitRecommender /\ [][NextRecommend]_vars

SpecCompare == InitCompare /\ [][NextCompare]_vars

SpecTable == InitTablePage /\ [][NextTable]_vars

SpecApp == InitAppPage /\ [][NextApp]_vars

SpecTabs == InitTabPage /\ [][NextTabs]_vars

SpecCharts == InitChartPage /\ [][NextCharts]_vars

SpecApi == InitApiClient /\ [][NextApi]_vars

SpecScenarioList == InitScenarioList /\ [][NextScenarioList]_vars

SpecSimulate == InitSimulate /\ [][NextSimulate]_vars

\* What is certain to happen once it can: an open alert is dismissed, and a
\* comparison the service accepted is computed.  Nothing makes a response or
\* a failure arrive: post passes fetch no signal and starts no timer, so a
\* request the backend leaves unanswered stays in flight.
FairSimulate ==
    /\ WF_vars(DismissAlert)
    /\ WF_vars(\E i \in 1..MaxInFlight : \E k \in 1..MaxScenarios : OrchestrateScenario(i, k))

SpecSimulateFair == InitSimulate /\ [][NextSimulate]_vars /\ FairSimulate

(***************************************************************************)
(* Claims about the risk index.                                            *)
(***************************************************************************)

\* C3: every score is bucketed lower-bound-inclusive (25 is Low, 50 is
\* Moderate, 75 is High) and getRiskColorByScore(score) is the colour of the
\* bucket the score falls in, for every score in [0,100].
C3_ColourOfSameBucket ==
    risk.computed =>
        /\ (risk.composite_risk_score = 25 * ScoreUnit => risk.risk_level = "Low")
        /\ (risk.composite_risk_score = 50 * ScoreUnit => risk.risk_level = "Moderate")
        /\ (risk.composite_risk_score = 75 * ScoreUnit => risk.risk_level = "High")
        /\ getRiskColorByScore(risk.composite_risk_score) = getRiskColor(risk.risk_level)

\* C4: for components in [0,100] the composite score is exactly
\* 0.35*economic + 0.25*sector + 0.25*unrest + 0.15*inequality (the clip to
\* [0,100] never changes it), it lies in [0,100], and the risk gauge
\* therefore splits the full scale: score + safe zone = 100.
C4_CompositeWeightedAndBounded ==
    risk.computed =>
        LET c == risk.components
            score == risk.composite_risk_score
        IN  /\ score = 35 * c.economic_risk + 25 * c.sector_disruption_risk
                         + 25 * c.social_unrest_risk + 15 * c.income_inequality_risk
            /\ 0 <= score /\ score <= 100 * ScoreUnit
            /\ RiskChartData(risk)[1] + RiskChartData(risk)[2] = 100 * ScoreUnit

\* C4 witness: a score was produced from four unequal components, strictly
\* inside the scale, and one at the top of the scale.
C4_Witness ==
    /\ risk.computed
    /\ risk.components.economic_risk = 10000
    /\ risk.components.sector_disruption_risk = 2504
    /\ risk.components.social_unrest_risk = 7500
    /\ risk.components.income_inequality_risk = 0
    /\ risk.composite_risk_score = 600100

(***************************************************************************)
(* Claims about the comparison engine.                                     *)
(***************************************************************************)
InputOrders(n) == {p \in [1..n -> 1..n] : \A i, j \in 1..n : p[i] = p[j] => i = j}

Permuted(seq, p) == [i \in 1..Len(seq) |-> seq[p[i]]]

SameRankKey(a, b) ==
    /\ a.risk_score = b.risk_score
    /\ a.inflation_rate = b.inflation_rate
    /\ a.name = b.name

RowOf(t) == [name |-> t.name, inflation_rate |-> t.inflation_rate,
             risk_score |-> t.risk_score, risk_level |-> t.risk_level,
             sentiment |-> t.sentiment]

\* The table is ordered by (risk score, inflation rate, name), carries the
\* ranks 1..N in order, and holds the scenarios' rows, each as often as given.
TableRankedAndComplete ==
    LET n == Len(cmpInput)
    IN  /\ Len(cmpTable) = n
        /\ \A i \in 1..n : cmpTable[i].rank = i
        /\ \A i \in 1..n : \A j \in 1..n :
              i < j =>
                \/ cmpTable[i].risk_score < cmpTable[j].risk_score
                \/ /\ cmpTable[i].risk_score = cmpTable[j].risk_score
                   /\ cmpTable[i].inflation_rate < cmpTable[j].inflation_rate
                \/ /\ cmpTable[i].risk_score = cmpTable[j].risk_score
                   /\ cmpTable[i].inflation_rate = cmpTable[j].inflation_rate
                   /\ ~LexLess(cmpTable[j].name, cmpTable[i].name)
        /\ \A i \in 1..n :
              Cardinality({j \in 1..n : RowOf(cmpTable[j]) = ScenarioRow(cmpInput[i])})
                = Cardinality({j \in 1..n : ScenarioRow(cmpInput[j]) = ScenarioRow(cmpInput[i])})

SameTableForEveryPermutation ==
    \A p \in InputOrders(Len(cmpInput)) : CompareTable(Permuted(cmpInput, p)) = cmpTable

\* Scenarios that tie on risk score, inflation rate and name have equal rows
\* (always so when the names are distinct).
TiedScenariosHaveEqualRows ==
    \A i, j \in 1..Len(cmpInput) :
        SameRankKey(ScenarioRow(cmpInput[i]), ScenarioRow(cmpInput[j]))
            => ScenarioRow(cmpInput[i]) = ScenarioRow(cmpInput[j])

C5_SectorImpactsBounded ==
    sectorImpacts.computed =>
        /\ DOMAIN sectorImpacts.sector_impacts = SectorSet
        /\ Cardinality(SectorSet) = 8
        /\ \A s \in SectorSet :
              /\ SectorChartAxis.min <= sectorImpacts.sector_impacts[s]
              /\ sectorImpacts.sector_impacts[s] <= SectorChartAxis.max
              /\ -ImpactUnit <= sectorImpacts.sector_impacts[s]
              /\ sectorImpacts.sector_impacts[s] <= ImpactUnit

\* C5 witness: a restricted policy at full magnitude whose raw total leaves
\* [-1,1] in a sector inside the restriction and, through the ripple, in one
\* outside it.
C5_Witness ==
    /\ sectorImpacts.computed
    /\ sectorInput.affected_sectors = {"Transport", "Energy"}
    /\ sectorInput.magnitude = 500
    /\ \E i \in 1..Len(SECTORS) :
          /\ SECTORS[i] = "Transport"
          /\ RawImpact(sectorInput)[i] < -ImpactUnit
          /\ sectorImpacts.sector_impacts["Transport"] = -ImpactUnit
    /\ \E i \in 1..Len(SECTORS) :
          /\ SECTORS[i] = "IT"
          /\ RawImpact(sectorInput)[i] < -ImpactUnit
          /\ sectorImpacts.sector_impacts["IT"] = -ImpactUnit

(***************************************************************************)
(* Claims about the sentiment aggregation.                                 *)
(***************************************************************************)

\* C6: every reaction falls in exactly one class, positive (polarity > 0.1),
\* negative (polarity < -0.1) or neutral (otherwise), so for every population
\* the three ratios sum to 100 within 0.1.
C6_RatiosSumTo100 ==
    sentiment.computed =>
        LET n == Len(reactions)
            pie == SentimentChartData(sentiment)
        IN  /\ DOMAIN sentiment.classes = 1..n
            /\ \A i \in 1..n :
                  /\ sentiment.classes[i] = "positive" <=> reactions[i] > 10
                  /\ sentiment.classes[i] = "negative" <=> reactions[i] < -10
                  /\ sentiment.classes[i] = "neutral"
                        <=> (reactions[i] >= -10 /\ reactions[i] <= 10)
            /\ CountClass(sentiment.classes, "positive")
                 + CountClass(sentiment.classes, "negative")
                 + CountClass(sentiment.classes, "neutral") = n
            /\ pie[1] + pie[2] + pie[3] >= 1000 - 1
            /\ pie[1] + pie[2] + pie[3] <= 1000 + 1

\* C6 witness: six reactions, one on each threshold counted neutral, whose
\* rounded ratios (16.7, 16.7, 66.7) do not sum to 100 exactly.
C6_Witness ==
    /\ sentiment.computed
    /\ Len(reactions) = 6
    /\ \E i, j \in 1..6 : reactions[i] = 10 /\ reactions[j] = -10
    /\ sentiment.positive_ratio = 167
    /\ sentiment.negative_ratio = 167
    /\ sentiment.neutral_ratio = 667

(***************************************************************************)
(* Claims about handleComparison.                                          *)
(***************************************************************************)

\* C1: whenever handleComparison runs with fewer than 2 scenario items it
\* reports the error (the alert asking for at least 2 scenarios) and returns
\* without calling apiClient.compareScenarios: nothing is sent, the overlay
\* and the displayed results are left alone, and no /compare request in
\* flight ever carries fewer than 2 scenarios.
C1_NoComparisonBelowTwo ==
    /\ [](\A i \in DOMAIN calls :
             calls[i].kind = "compare" => Len(calls[i].body.scenarios) >= 2)
    /\ [][(handleComparison /\ Len(scenarioItems) < 2) =>
             /\ alertBox' = Alert("Please add at least 2 scenarios to compare", "", FALSE)
             /\ UNCHANGED <<calls, overlayHidden, comparisonResults>>]_vars

\* C1 witness: handleComparison ran on a page with a single scenario item,
\* complete and in range, and stopped at the alert with nothing in flight.
C1_Witness ==
    /\ Len(scenarioItems) = 1
    /\ ~ScenarioIncomplete(scenarioItems[1])
    /\ MagnitudeInRange(JsonNumber(parseFloat(scenarioItems[1].magnitude)))
    /\ alertBox.open
    /\ alertBox.text = "Please add at least 2 scenarios to compare"
    /\ calls = <<>>
    /\ overlayHidden

\* C7: handleComparison never sends a compare request that contains a
\* scenario whose magnitude is outside [-50,50] or whose duration_months is
\* outside [1,60]: every /compare request in flight is in range throughout.
C7_NoOutOfRangeScenarioSent ==
    \A i \in DOMAIN calls :
        calls[i].kind = "compare" =>
            \A k \in 1..Len(calls[i].body.scenarios) :
                /\ MagnitudeInRange(calls[i].body.scenarios[k].magnitude)
                /\ DurationInRange(calls[i].body.scenarios[k].duration_months)

(***************************************************************************)
(* Claims about simulate and compare calls in flight together.             *)
(***************************************************************************)

\* The form fields a payload is built from and nothing else: the payload
\* carries exactly policy_type, magnitude, duration_months, affected_sectors
\* and description.
PayloadFields == {"policy_type", "magnitude", "duration_months", "affected_sectors",
                  "description"}

OwnSimulation(call) == Orchestrate(ServerPolicy(call.body))

OwnComparison(call) == CompareTable(ServerScenarios(call.body))

C11_FailureReportedOnceNoRetry ==
    [][/\ (handleSimulation \/ handleComparison) => Len(calls') <= Len(calls) + 1
       /\ \A i \in DOMAIN calls :
             (handleSimulationCatch(i) \/ handleComparisonCatch(i)) =>
                /\ ~alertBox.open
                /\ alertBox'.open
                /\ alertBox'.text = (IF calls[i].kind = "simulate"
                                     THEN "Error running simulation: "
                                     ELSE "Error comparing scenarios: ")
                /\ alertBox'.detail \in {"Failed to fetch", "InvalidInputError"}
                /\ Len(calls') = Len(calls) - 1
                /\ \A j \in DOMAIN calls' : calls'[j] = calls[IF j < i THEN j ELSE j + 1]
       /\ DismissAlert => (calls' = calls /\ ~alertBox'.open)]_vars

\* C11 witness: the only request in flight, a simulation the service refused,
\* has failed: its alert is open, nothing is in flight and nothing is shown.
C11_Witness ==
    /\ alertBox.open
    /\ alertBox.text = "Error running simulation: "
    /\ alertBox.detail = "InvalidInputError"
    /\ calls = <<>>
    /\ ~overlayHidden
    /\ dashboard.hidden

\* C12: every simulation or comparison eventually completes with a displayed
\* result or a reported error, also when the backend never responds (a
\* timeout surfaces as a reported error), so the loading overlay shown at the
\* start of handleSimulation / handleComparison is eventually hidden again.
C12_OverlayEventuallyHidden == (~overlayHidden) ~> overlayHidden

(***************************************************************************)
(* Claims about copies of a scenario in a comparison.                      *)
(***************************************************************************)

\* Input positions i and j hold the same scenario under two different names,
\* the name at i being the smaller, and no third copy of it is in the list.
CopiesAt(i, j) ==
    /\ i # j
    /\ cmpInput[i].policy = cmpInput[j].policy
    /\ LexLess(cmpInput[i].name, cmpInput[j].name)
    /\ \A k \in 1..Len(cmpInput) :
          cmpInput[k].policy = cmpInput[i].policy => k \in {i, j}

\* Table position a holds the row of input position i.
RowAt(a, i) == RowOf(cmpTable[a]) = ScenarioRow(cmpInput[i])

C14_MostAffectedTopThree ==
    /\ sectorImpacts.computed =>
          LET top == sectorImpacts.most_affected
              impacts == sectorImpacts.sector_impacts
              Listed == {top[i].sector : i \in 1..Len(top)}
              Before(s, score, t) ==
                  \/ Abs(score) > Abs(impacts[t])
                  \/ /\ Abs(score) = Abs(impacts[t])
                     /\ NameRank(s) < NameRank(t)
          IN  /\ Len(top) = 3
              /\ Cardinality(Listed) = 3
              /\ \A i \in 1..3 :
                    /\ top[i].sector \in SectorSet
                    /\ top[i].score = impacts[top[i].sector]
              /\ \A i \in 1..2 :
                    Before(top[i].sector, top[i].score, top[i + 1].sector)
              /\ \A t \in SectorSet \ Listed :
                    Before(top[3].sector, top[3].score, t)
    /\ affectedSectorsValue.set =>
          LET text == affectedSectorsValue.textContent
              received == affectedSectorsValue.received
          IN  /\ Len(text) <= 3
              /\ Len(text) = Min(3, Len(received))
              /\ \A i \in 1..Len(text) : text[i] = received[i].sector

\* C14 witness: a result in which two of the top 3 tie on |score|, shown on
\* the card from a list of more than 3 entries.
C14_Witness ==
    /\ sectorImpacts.computed
    /\ affectedSectorsValue.set
    /\ Len(affectedSectorsValue.received) > 3
    /\ Len(affectedSectorsValue.textContent) = 3
    /\ sectorImpacts.most_affected[3].score # 0
    /\ \E i \in 1..2 :
          Abs(sectorImpacts.most_affected[i].score)
              = Abs(sectorImpacts.most_affected[i + 1].score)

(***************************************************************************)
(* Claims about the recommendations.                                       *)
(***************************************************************************)

\* Position of a recommendation in the list, 0 when it is absent.
RecIndex(list, rec) ==
    IF \E i \in 1..Len(list) : list[i] = rec
    THEN CHOOSE i \in 1..Len(list) : list[i] = rec
    ELSE 0

\* C15: the rules are additive and in fixed priority order: a result with
\* risk_level High or Critical contains the strong mitigation
\* recommendation, a result with sentiment_category Negative contains the
\* stakeholder engagement recommendation, a result with both contains both,
\* and the two always stand in the same relative order.
C15_RulesAdditiveInPriorityOrder ==
    recommendations.computed =>
        LET list == recommendations.list
            mitigation == RecIndex(list, "strong mitigation")
            engagement == RecIndex(list, "stakeholder engagement")
        IN  /\ recInput.risk_level \in {"High", "Critical"} => mitigation > 0
            /\ recInput.sentiment_category = "Negative" => engagement > 0
            /\ (mitigation > 0 /\ engagement > 0) => mitigation < engagement
            /\ \A i, j \in 1..Len(list) : list[i] = list[j] => i = j

\* C15 witness: a Critical, Negative result with an affected top sector: all
\* three rules fire, mitigation first and engagement last.
C15_Witness ==
    /\ recommendations.computed
    /\ recInput.risk_level = "Critical"
    /\ recInput.sentiment_category = "Negative"
    /\ recommendations.list
          = <<"strong mitigation", "sector support", "stakeholder engagement">>

(***************************************************************************)
(* Claims about the affected sectors of a simulate request.                *)
(***************************************************************************)

\* C16: in every simulate request the frontend sends, affected_sectors is
\* null exactly when no sector checkbox is checked, and otherwise is exactly
\* the list of the checked values; an empty list is never sent.
C16_AffectedSectorsNullOrChecked ==
    \A i \in 1..Len(calls) :
        calls[i].kind = "simulate" =>
            LET sent == calls[i].body.affected_sectors
                checked == calls[i].form.sectors
            IN  /\ sent.null <=> checked = {}
                /\ ~sent.null =>
                      /\ sent.list # <<>>
                      /\ Len(sent.list) = Cardinality(checked)
                      /\ {sent.list[k] : k \in 1..Len(sent.list)} = checked

\* C16 witness: two simulate requests in flight, one from a form with no box
\* checked and one from a form with Transport and Energy checked.
C16_Witness ==
    /\ Len(calls) = 2
    /\ calls[1].kind = "simulate"
    /\ calls[2].kind = "simulate"
    /\ calls[1].form.sectors = {}
    /\ calls[1].body.affected_sectors.null
    /\ calls[2].form.sectors = {"Transport", "Energy"}
    /\ calls[2].body.affected_sectors = [null |-> FALSE, list |-> <<"Transport", "Energy">>]

(***************************************************************************)
(* Claims about the scenario list and the compare button.                  *)
(***************************************************************************)

\* C17: from an empty scenario list with the compare button disabled, after
\* any sequence of addScenario and removeScenario calls the compare button
\* is enabled if and only if at least 2 scenarios are in the list
\* this.scenarios that gates it.
C17_CompareEnabledIffTwoScenarios ==
    (~compareDisabled) <=> Len(scenarios) >= 2

\* C17 witness: two scenarios were added, which enabled the button, and a
\* removal emptied this.scenarios and disabled it again while an item is
\* left on the page.
C17_Witness ==
    /\ scenarios = <<>>
    /\ Len(scenarioItems) = 1
    /\ compareDisabled

\* C20: after any sequence of addScenario and removeScenario calls, two
\* addScenario calls that obtain the same Date.now() id and removeScenario
\* of an absent id included, the number of ids in this.scenarios equals the
\* number of .scenario-item elements in the page.
C20_ListAgreesWithPage ==
    Len(scenarios) = Len(scenarioItems)

(***************************************************************************)
(* Claims about the loading overlay and the dashboard under overlap.       *)
(***************************************************************************)

\* C18: whenever at least one simulate or compare request is in flight the
\* loading overlay is visible, for every interleaving of overlapping
\* handleSimulation and handleComparison invocations.
C18_OverlayWhileInFlight ==
    calls # <<>> => ~overlayHidden

\* C19: when two simulations are submitted one after the other and both
\* succeed, once both responses have arrived the results dashboard shows the
\* result of the later-submitted simulation, whatever order the responses
\* arrive in.
C19_DashboardShowsLatestSubmitted ==
    (/\ arrivals.latest.arrived
     /\ \A i \in 1..Len(calls) : calls[i].kind # "simulate")
        => /\ ~dashboard.hidden
           /\ dashboard.result = arrivals.latest.result

(***************************************************************************)
(* Claims about the validation handleComparison makes before sending.      *)
(***************************************************************************)

\* A scenario item with an empty name, an empty policy type, or a magnitude
\* or duration that does not parse to a number.
Unusable(item) ==
    \/ Len(item.name) = 0
    \/ item.policyType = ""
    \/ item.magnitude.blank
    \/ item.duration.blank

\* C21: handleComparison validates all scenarios before sending anything:
\* if any scenario item is unusable no compare request is sent, the overlay
\* is not shown and the displayed comparison results are left as they were;
\* a request that is sent holds exactly one entry per scenario item, in page
\* order.
C21_ValidatedBeforeSending ==
    /\ [][(handleComparison /\ \E i \in DOMAIN scenarioItems : Unusable(scenarioItems[i]))
             => UNCHANGED <<calls, overlayHidden, comparisonResults>>]_vars
    /\ [][(handleComparison /\ calls' # calls) =>
             LET sent == calls'[Len(calls')].body.scenarios
             IN  /\ Len(calls') = Len(calls) + 1
                 /\ Len(sent) = Len(scenarioItems)
                 /\ \A i \in 1..Len(sent) :
                       /\ sent[i].name = scenarioItems[i].name
                       /\ sent[i].policy_type = scenarioItems[i].policyType
                       /\ ~sent[i].magnitude.null
                       /\ sent[i].magnitude.tenths = scenarioItems[i].magnitude.tenths
                       /\ ~sent[i].duration_months.null
                       /\ sent[i].duration_months.tenths
                              = DivTrunc(scenarioItems[i].duration.tenths, 10) * 10]_vars

\* C21 witness: after a comparison was displayed a magnitude was cleared in
\* the second of two items and Compare was clicked again: the alert is up,
\* nothing is in flight, the overlay is hidden and the earlier results are
\* still shown.
C21_Witness ==
    /\ Len(scenarioItems) = 2
    /\ ~Unusable(scenarioItems[1])
    /\ scenarioItems[2].magnitude.blank
    /\ scenarioItems[2].name # <<>>
    /\ alertBox.open
    /\ alertBox.text = "Please fill in all scenario fields"
    /\ calls = <<>>
    /\ overlayHidden
    /\ ~comparisonResults.hidden

(***************************************************************************)
(* Claims about what a failed simulation leaves on the page.               *)
(***************************************************************************)

\* The step is the catch block of handleSimulation raising its alert.
SimulationFailureReported ==
    /\ ~alertBox.open
    /\ alertBox'.open
    /\ IF alertBox'.open THEN alertBox'.text = "Error running simulation: " ELSE FALSE

\* C22: a failed simulation leaves the displayed results unchanged: when
\* the request rejects, displayResults is not called and the dashboard, its
\* hidden state and the result it shows, is what it was before.
C22_FailedSimulationLeavesDashboard ==
    [][SimulationFailureReported => dashboard' = dashboard]_vars

\* C22 witness: a simulation failed after an earlier one had been displayed:
\* the alert is up and the dashboard still shows the earlier result.
C22_Witness ==
    /\ alertBox.open
    /\ alertBox.text = "Error running simulation: "
    /\ ~dashboard.hidden
    /\ arrivals.latest.arrived
    /\ dashboard.result = arrivals.latest.result

(***************************************************************************)
(* Claims about APIClient.                                                 *)
(***************************************************************************)

\* C23: get and post never return a value for a non-OK response: they
\* reject, and for post the message is the body's detail when the body is
\* JSON with a non-empty detail and 'HTTP error! status: <status>' otherwise,
\* also when the body is not valid JSON; a network failure is rethrown
\* unchanged.
C23_NonOkRejectsWithMessage ==
    apiResult.settled =>
        LET outcome == apiCall.outcome
        IN  IF outcome.failed
            THEN apiResult = Rejected(outcome.error)
            ELSE ~ResponseOk(outcome.status) =>
                    /\ ~apiResult.resolved
                    /\ apiCall.method = "POST" =>
                          apiResult.error.message
                              = IF /\ outcome.body.json
                                   /\ outcome.body.detail.defined
                                   /\ outcome.body.detail.text # ""
                                THEN <<outcome.body.detail.text>>
                                ELSE <<"HTTP error! status: ", StatusText(outcome.status)>>

(***************************************************************************)
(* Claims about the charts.                                                *)
(***************************************************************************)

\* The charts constructed on a canvas that were not destroyed.
LiveCharts(cv) == {k \in 1..Len(cv.constructed) : ~cv.constructed[k].destroyed}

\* C24 as stated: each canvas holds at most one live chart; after any
\* sequence of create*Chart calls on a canvas exactly the most recent
\* successfully constructed chart is not destroyed, and if construction
\* throws the canvas references no chart.
C24_Original ==
    \A c \in Canvases :
        LET cv == canvasCharts[c]
        IN  /\ Cardinality(LiveCharts(cv)) <= 1
            /\ cv.constructed # <<>> => LiveCharts(cv) = {Len(cv.constructed)}
            /\ cv.threw => cv.chart = 0

\* C24 amended: each canvas holds at most one live chart; after a call
\* whose construction succeeded, the chart it constructed is the only one
\* not destroyed and the canvas references it; after a call whose
\* construction threw, every chart constructed on the canvas is destroyed
\* and the canvas references no chart.
C24_AtMostOneLiveChart ==
    \A c \in Canvases :
        LET cv == canvasCharts[c]
        IN  /\ Cardinality(LiveCharts(cv)) <= 1
            /\ cv.threw => (cv.chart = 0 /\ LiveCharts(cv) = {})
            /\ (~cv.threw /\ cv.constructed # <<>>) =>
                  /\ cv.chart = Len(cv.constructed)
                  /\ LiveCharts(cv) = {cv.chart}

\* C24 witness: on one canvas a second chart replaced the first, which is
\* destroyed; on another the second construction threw after the first
\* chart had been destroyed.
C24_Witness ==
    /\ canvasCharts["risk-chart"].chart = 2
    /\ canvasCharts["risk-chart"].constructed[1].destroyed
    /\ ~canvasCharts["risk-chart"].constructed[2].destroyed
    /\ canvasCharts["inflation-chart"].threw
    /\ Len(canvasCharts["inflation-chart"].constructed) = 1
    /\ canvasCharts["inflation-chart"].constructed[1].destroyed
    /\ canvasCharts["inflation-chart"].chart = 0

\* C25: a failure while constructing a chart is contained: the exception
\* does not leave the create function, the details panel of that chart is
\* still updated, and displayResults goes on to the remaining charts and
\* the recommendations.
C25_ConstructorFailureContained ==
    /\ ~uncaught
    /\ shown.results > 0 =>
          /\ \A c \in CanvasesWithDetails : detailsPanels[c] = shown.results
          /\ recommendationsDiv = shown.results
          /\ \A i \in 1..Len(DashboardCanvases) :
                LET cv == canvasCharts[DashboardCanvases[i]]
                IN  ~cv.threw =>
                        /\ cv.chart # 0
                        /\ cv.constructed[cv.chart].data = shown.results

\* C25 witness: the constructor threw on the first canvas of the second
\* result; the details of that chart, the three other charts and the
\* recommendations are those of the second result.
C25_Witness ==
    /\ shown.results = 2
    /\ canvasCharts["inflation-chart"].threw
    /\ detailsPanels["inflation-chart"] = 2
    /\ \A c \in {"risk-chart", "sector-chart", "sentiment-chart"} :
          /\ ~canvasCharts[c].threw
          /\ canvasCharts[c].constructed[canvasCharts[c].chart].data = 2
    /\ recommendationsDiv = 2

(***************************************************************************)
(* Claims about tab navigation.                                            *)
(***************************************************************************)

\* C26: after any sequence of tab-button clicks exactly one tab button
\* carries the class active, the one clicked last; at most one tab content
\* carries it, the element <tab>-tab of that button, none if there is no
\* such element; and currentTab is the data-tab of the last clicked button.
C26_OneActiveTab ==
    lastClicked # NoClick =>
        /\ activeButtons = {lastClicked}
        /\ Cardinality(activeContents) <= 1
        /\ \A content \in TabContents :
              content \in activeContents <=> content = TabContentId(DataTab(lastClicked))
        /\ activeContents \subseteq TabContents
        /\ currentTab = DataTab(lastClicked)

\* C26 witness: the button whose content element does not exist was clicked
\* last: it alone is active and no tab content is.
C26_Witness ==
    /\ lastClicked = "about"
    /\ activeButtons = {"about"}
    /\ activeContents = {}
    /\ currentTab = "about"

(***************************************************************************)
(* Claims about the notifications of the application.                      *)
(***************************************************************************)

\* The alerts raised on behalf of a caller.
AlertsOf(caller) == SelectSeq(appAlerts, LAMBDA a : a.caller = caller)

\* The words Cannot connect stand next to each other in the message.
HasCannotConnect(message) ==
    \E i \in 1..(Len(message) - 1) : message[i] = "Cannot" /\ message[i + 1] = "connect"

\* C27: showNotification raises an alert only for type error with a message
\* that does not contain Cannot connect; so a failed or unhealthy health
\* check and a failed load of the indicators raise no alert and do not keep
\* initialize from completing.
C27_AlertOnlyForOtherErrors ==
    /\ appPhase.shown =>
          IF appInput.type = "error" /\ ~HasCannotConnect(appInput.message)
          THEN AlertsOf("page") = <<[caller |-> "page", message |-> appInput.message]>>
          ELSE AlertsOf("page") = <<>>
    /\ AlertsOf("checkAPIHealth") = <<>>
    /\ (appPhase.health # "idle" \/ appPhase.indicators # "idle") => appPhase.initialized

\* C27 witness: the health check and the indicators request both failed,
\* initialize has completed, and the only alert is the one for an error
\* notification from the page that does not mention Cannot connect.
C27_Witness ==
    /\ appInput.health = "rejected"
    /\ appInput.indicators = "rejected"
    /\ appPhase = [initialized |-> TRUE, health |-> "settled", indicators |-> "settled",
                   shown |-> TRUE]
    /\ appInput.type = "error"
    /\ appInput.message = <<"connect", "Cannot">>
    /\ appAlerts = <<[caller |-> "page", message |-> <<"connect", "Cannot">>]>>

(***************************************************************************)
(* Claims about the displayed ranking table.                               *)
(***************************************************************************)

\* C28: the displayed ranking table is sorted by risk score:
\* displayComparisonTable renders exactly one row per entry of
\* comparison_table, in the received order and with the received rank,
\* without re-sorting, dropping or duplicating rows, and the comparison
\* chart lists the scenarios in that same order.
C28_TableAsReceived ==
    /\ tableContainer.rendered =>
          /\ Len(tableContainer.rows) = Len(tableReceived)
          /\ \A i \in 1..Len(tableReceived) :
                /\ i <= Len(tableContainer.rows)
                /\ tableContainer.rows[i]
                      = <<RankText(tableReceived[i].rank), tableReceived[i].name>>
          /\ \A i \in 1..(Len(tableReceived) - 1) :
                tableReceived[i].risk_score <= tableReceived[i + 1].risk_score
    /\ chartLabels.created =>
          /\ Len(chartLabels.labels) = Len(tableReceived)
          /\ \A i \in 1..Len(tableReceived) :
                chartLabels.labels[i] = tableReceived[i].name

====
